---- MODULE Spec2Model ----
(***************************************************************************)
(* Conversational session engine of hub-automacao-pro (agent-node):        *)
(* webhook router, admin controller, message pipeline, memory manager.     *)
(*                                                                         *)
(* One JavaScript event loop: the code between two awaits runs as one      *)
(* atomic step, so every action below is one such segment of a handler.    *)
(* better-sqlite3 statements are synchronous and each commits on its own.  *)
(***************************************************************************)
EXTENDS Integers, Sequences, FiniteSets, TLC

VARIABLES
    router,        \* which routes/webhook.js of the repository is mounted
    config,        \* process configuration read from the environment
    preferences,   \* AdminController.preferences
    db,            \* SQLite: conversation_memory, conversation_history
    clock,         \* CURRENT_TIMESTAMP of the store, in whole seconds
    turns,         \* one record per HTTP request, in arrival order
    limits,        \* how many requests arrive and how many handlers overlap
    cache,         \* lid-resolver.js: const cache = new Map(), lid_jid -> phone
    lid_mappings,  \* SQLite table lid_mappings of the resolver
    pgPool,        \* PostgreSQL: lid_mappings and whatsapp_accounts
    pgSaves,       \* saveMappingToPostgres promises that have not settled
    calls          \* EvolutionClient.sendMessage calls and contact events, in order

engineVars   == <<router, config, preferences, db, clock, turns, limits>>
resolverVars == <<cache, lid_mappings, pgPool, pgSaves, calls>>
vars == <<router, config, preferences, db, clock, turns, limits,
          cache, lid_mappings, pgPool, pgSaves, calls>>

(***************************************************************************)
(* Bounds                                                                  *)
(***************************************************************************)
MaxEvents   == 2    \* HTTP requests (webhook posts and history deletes)
MaxInFlight == 1    \* handlers that have not returned when a request is admitted
MaxClock    == 1    \* seconds the store clock may advance

(***************************************************************************)
(* Program constants                                                       *)
(***************************************************************************)
maxHistoryMessages == 50
summaryThreshold   == 20
summaryHistoryLimit == 50
leadPeriod         == 5

\* Store statements a segment executes at most: memory lookup to context read,
\* and addToHistory.
TurnStatements   == 8
AppendStatements == 2

\* A statement budget that no segment uses up.
NoFailure == TurnStatements + AppendStatements

AdminPhone   == "5511900000000"
ContactPhone == "5511988887777"
WaServer     == "s.whatsapp.net"
StoreUnavailable == "StoreUnavailable"

RouterAdmin  == "routes/webhook.js (admin-controller)"
RouterLegacy == "agent-node/src/api/routes/webhook.js"

(***************************************************************************)
(* Generic sequence helpers                                                *)
(***************************************************************************)
RECURSIVE SeqReverse(_)
SeqReverse(s) == IF s = <<>> THEN <<>> ELSE Append(SeqReverse(Tail(s)), Head(s))

SeqTake(s, n) == SubSeq(s, 1, IF n < Len(s) THEN n ELSE Len(s))

SeqLast(s, n) == SubSeq(s, (IF n < Len(s) THEN Len(s) - n ELSE 0) + 1, Len(s))

RECURSIVE SeqFilter(_, _)
SeqFilter(s, keep) ==
    IF s = <<>> THEN <<>>
    ELSE IF Head(s) \in keep THEN <<Head(s)>> \o SeqFilter(Tail(s), keep)
    ELSE SeqFilter(Tail(s), keep)

(***************************************************************************)
(* Gateway identifiers                                                     *)
(***************************************************************************)
AdminJid   == [user |-> AdminPhone, server |-> WaServer]
ContactJid == [user |-> ContactPhone, server |-> WaServer]
NoJid      == [user |-> "", server |-> ""]
Jids       == {AdminJid, ContactJid}

\* The linked identifier ("...@lid") under which the gateway may also deliver
\* the messages of the contact whose number is ContactPhone.
LidServer == "lid"
LidJid    == [user |-> "98765", server |-> LidServer]

\* key.remoteJid.replace('@s.whatsapp.net', '').replace('@g.us', '')
whatsappIdOf(jid) ==
    IF jid.server \in {WaServer, "g.us"}
    THEN [user |-> jid.user, suffix |-> ""]
    ELSE [user |-> jid.user, suffix |-> jid.server]

\* key.remoteJid.split('@')[0]
remotePhoneOf(jid) == jid.user

PushNameOf(jid) == IF jid \in {ContactJid, LidJid} THEN "Ana" ELSE "Unknown"

(***************************************************************************)
(* AdminController                                                         *)
(***************************************************************************)
\* Message texts the gateway may deliver ("" = no text content).
Texts == {"", "oi", "/oi", "/pause", "/resume", "continua", "audio", "texto", "auto", "status"}

NoCommand == [command |-> "none", mode |-> ""]

\* phoneNumber.replace(/\D/g, '') === adminNumber.replace(/\D/g, '')
isAdmin(phoneNumber) ==
    config.adminNumber # "" /\ phoneNumber.user = config.adminNumber

\* The regular expressions of parseCommand evaluated on Texts.
parseCommand(text) ==
    CASE text = "audio"    -> [command |-> "setResponseMode", mode |-> "audio"]
      [] text = "texto"    -> [command |-> "setResponseMode", mode |-> "text"]
      [] text = "auto"     -> [command |-> "setResponseMode", mode |-> "auto"]
      [] text = "/pause"   -> [command |-> "pause", mode |-> ""]
      [] text = "/resume"  -> [command |-> "resume", mode |-> ""]
      [] text = "continua" -> [command |-> "resume", mode |-> ""]
      [] text = "status"   -> [command |-> "status", mode |-> ""]
      [] OTHER             -> NoCommand

\* Returns the new preferences and the confirmation text ("" = null).
executeCommand(prefs, parsed) ==
    CASE parsed.command = "setResponseMode" ->
            [prefs |-> [prefs EXCEPT !.responseMode = parsed.mode], result |-> "mode set"]
      [] parsed.command = "pause" ->
            [prefs |-> [prefs EXCEPT !.botPaused = TRUE], result |-> "Bot pausado"]
      [] parsed.command = "resume" ->
            [prefs |-> [prefs EXCEPT !.botPaused = FALSE], result |-> "Bot ativado"]
      [] parsed.command = "status" ->
            [prefs |-> prefs, result |-> "Status do Bot"]
      [] OTHER ->
            [prefs |-> prefs, result |-> ""]

isBotPaused == preferences.botPaused

shouldRespondWithAudio_Inverted(isIncomingAudio) ==
    IF preferences.responseMode = "audio" THEN FALSE
    ELSE IF preferences.responseMode = "text" THEN TRUE
    ELSE isIncomingAudio

shouldRespondWithAudio(isIncomingAudio) ==
    IF preferences.responseMode = "audio" THEN TRUE
    ELSE IF preferences.responseMode = "text" THEN FALSE
    ELSE isIncomingAudio

(***************************************************************************)
(* SQLite store (db/sqlite.js, migrations/001_initial.sql)                 *)
(*                                                                         *)
(* A statement context c carries the database, whether an exception is     *)
(* propagating (ok = FALSE), its kind (err), the number of statements the  *)
(* store will still execute before it becomes unavailable (budget) and the *)
(* value returned by the last statement (ret).                             *)
(***************************************************************************)
EmptyObj == [k \in {} |-> ""]

EmptyDb == [memory |-> EmptyObj, history |-> <<>>, memSeq |-> 0, histSeq |-> 0]

Ctx(d, budget) == [db |-> d, ok |-> TRUE, err |-> "", budget |-> budget, ret |-> 0]

Throw(c, e) == [c EXCEPT !.ok = FALSE, !.err = e]

\* db.prepare(sql).run/get/all: one autocommitted statement.
Exec(c, d, r) ==
    IF ~c.ok THEN c
    ELSE IF c.budget = 0 THEN Throw(c, StoreUnavailable)
    ELSE [c EXCEPT !.db = d, !.ret = r, !.budget = @ - 1]

MemoryIds(d) == DOMAIN d.memory

\* SELECT * FROM conversation_memory WHERE whatsapp_id = ? AND business_id = ?
SelectMemoryId(d, whatsappId, businessId) ==
    LET found == {i \in MemoryIds(d) : /\ d.memory[i].whatsapp_id = whatsappId
                                       /\ d.memory[i].business_id = businessId}
    IN IF found = {} THEN 0 ELSE CHOOSE i \in found : TRUE

\* JSON text of an object: its members as <<key, value>> pairs.
FactKeys == <<"nome", "empresa">>

RECURSIVE JSONstringifyFrom(_, _)
JSONstringifyFrom(obj, i) ==
    IF i > Len(FactKeys) THEN <<>>
    ELSE (IF FactKeys[i] \in DOMAIN obj THEN <<(<<FactKeys[i], obj[FactKeys[i]]>>)>> ELSE <<>>)
         \o JSONstringifyFrom(obj, i + 1)

JSONstringify(obj) == JSONstringifyFrom(obj, 1)

RECURSIVE JSONparse(_)
JSONparse(text) ==
    IF text = <<>> THEN EmptyObj
    ELSE LET rest == JSONparse(Tail(text))
             k == Head(text)[1]
         IN [x \in DOMAIN rest \cup {k} |-> IF x \in DOMAIN rest THEN rest[x] ELSE Head(text)[2]]

\* { ...a, ...b }
Spread(a, b) ==
    [k \in DOMAIN a \cup DOMAIN b |-> IF k \in DOMAIN b THEN b[k] ELSE a[k]]

\* INSERT INTO conversation_memory (...): AUTOINCREMENT id, UNIQUE(whatsapp_id, business_id),
\* column defaults facts '{}', lead_stage 'new', lead_temperature 'cold', total_messages 0.
InsertMemory(c, whatsappId, businessId, now) ==
    IF ~c.ok THEN c
    ELSE IF SelectMemoryId(c.db, whatsappId, businessId) # 0 THEN Throw(c, "SQLITE_CONSTRAINT_UNIQUE")
    ELSE LET id == c.db.memSeq + 1
             row == [whatsapp_id |-> whatsappId, business_id |-> businessId,
                     facts |-> <<>>, lead_stage |-> "new", lead_temperature |-> "cold",
                     summary_short |-> "", summary_detailed |-> "",
                     last_contact_at |-> now, total_messages |-> 0]
         IN Exec(c, [c.db EXCEPT !.memory = (id :> row) @@ @, !.memSeq = id], id)

getOrCreateMemory_AlwaysInsert(c, whatsappId, businessId, now) ==
    LET s2 == InsertMemory(c, whatsappId, businessId, now)
    IN Exec(s2, s2.db, s2.ret)

getOrCreateMemory(c, whatsappId, businessId, now) ==
    LET s1 == Exec(c, c.db, SelectMemoryId(c.db, whatsappId, businessId))
    IN IF ~s1.ok \/ s1.ret # 0 THEN s1
       ELSE LET s2 == InsertMemory(s1, whatsappId, businessId, now)
            IN Exec(s2, s2.db, s2.ret)

allowedFields == {"summary_short", "summary_detailed", "facts", "lead_stage",
                  "lead_temperature", "last_contact_at", "total_messages"}

\* UPDATE conversation_memory SET <allowed fields of updates> WHERE id = ?
updateMemory(c, memoryId, updates) ==
    LET fields == DOMAIN updates \cap allowedFields
    IN IF fields = {} THEN c
       ELSE Exec(c, IF memoryId \in MemoryIds(c.db)
                    THEN [c.db EXCEPT !.memory[memoryId] =
                            [f \in DOMAIN @ |-> IF f \in fields THEN updates[f] ELSE @[f]]]
                    ELSE c.db, 0)

InsertHistory_NoForeignKey(c, memoryId, role, content, now) ==
    IF ~c.ok THEN c
    ELSE LET id == c.db.histSeq + 1
             row == [id |-> id, memory_id |-> memoryId, role |-> role,
                     content |-> content, created_at |-> now]
         IN Exec(c, [c.db EXCEPT !.history = Append(@, row), !.histSeq = id], id)

\* INSERT INTO conversation_history, then UPDATE total_messages = total_messages + 1,
\* last_contact_at = CURRENT_TIMESTAMP.
\* foreign_keys = ON: memory_id must reference an existing conversation_memory row.
InsertHistory(c, memoryId, role, content, now) ==
    IF ~c.ok THEN c
    ELSE IF memoryId \notin MemoryIds(c.db) THEN Throw(c, "SQLITE_CONSTRAINT_FOREIGNKEY")
    ELSE LET id == c.db.histSeq + 1
             row == [id |-> id, memory_id |-> memoryId, role |-> role,
                     content |-> content, created_at |-> now]
         IN Exec(c, [c.db EXCEPT !.history = Append(@, row), !.histSeq = id], id)

addToHistory(c, memoryId, role, content, now) ==
    LET s1 == InsertHistory(c, memoryId, role, content, now)
    IN Exec(s1, IF memoryId \in MemoryIds(s1.db)
                THEN [s1.db EXCEPT !.memory[memoryId].total_messages = @ + 1,
                                   !.memory[memoryId].last_contact_at = now]
                ELSE s1.db, 0)

\* Rows of one session in rowid order, which is the order they were appended in.
HistoryOf(d, memoryId) ==
    SeqFilter(d.history, {d.history[i] : i \in {j \in DOMAIN d.history : d.history[j].memory_id = memoryId}})

\* ORDER BY created_at DESC.  SQL leaves the order of rows with equal
\* created_at open: tie is the order the engine produces for them.
ComesFirst(a, b, tie) ==
    \/ a.created_at > b.created_at
    \/ /\ a.created_at = b.created_at
       /\ IF tie = "rowid_asc" THEN a.id < b.id ELSE a.id > b.id

\* The row at position i is the one that exactly i - 1 rows come before.
OrderByCreatedAtDesc(rows, tie) ==
    [i \in 1 .. Cardinality(rows) |->
        CHOOSE a \in rows : Cardinality({b \in rows : ComesFirst(b, a, tie)}) = i - 1]

TieOrders == {"rowid_asc", "rowid_desc"}

\* SELECT ... WHERE memory_id = ? ORDER BY created_at DESC LIMIT ?, then .reverse()
getHistory(c, memoryId, limit, tie) ==
    LET rows == {c.db.history[i] : i \in {j \in DOMAIN c.db.history : c.db.history[j].memory_id = memoryId}}
    IN Exec(c, c.db, SeqReverse(SeqTake(OrderByCreatedAtDesc(rows, tie), limit)))

\* JSON.parse(memory?.facts || '{}')
getFacts(c, memoryId) ==
    Exec(c, c.db, IF memoryId \in MemoryIds(c.db) THEN JSONparse(c.db.memory[memoryId].facts) ELSE EmptyObj)

updateFacts_Replace(c, memoryId, newFacts) ==
    LET s1 == getFacts(c, memoryId)
    IN updateMemory(s1, memoryId, [facts |-> JSONstringify(newFacts)])

updateFacts(c, memoryId, newFacts) ==
    LET s1 == getFacts(c, memoryId)
        mergedFacts == Spread(IF s1.ok THEN s1.ret ELSE EmptyObj, newFacts)
    IN updateMemory(s1, memoryId, [facts |-> JSONstringify(mergedFacts)])

\* SELECT COUNT(*) FROM conversation_history WHERE memory_id = ?
needsSummary(c, memoryId) ==
    Exec(c, c.db, Len(HistoryOf(c.db, memoryId)) >= summaryThreshold)

\* SELECT * FROM business_contexts WHERE business_id = ? AND active = 1
getBusinessContext(c, businessId) == Exec(c, c.db, 0)

\* history.js: DELETE conversation_history, DELETE conversation_memory, in one transaction.
deleteUser_SessionOnly(d, memoryId) ==
    [d EXCEPT !.memory = [i \in DOMAIN @ \ {memoryId} |-> @[i]]]

deleteUser(d, memoryId) ==
    [d EXCEPT !.history = SeqFilter(@, {@[i] : i \in {j \in DOMAIN @ : @[j].memory_id # memoryId}}),
              !.memory = [i \in DOMAIN @ \ {memoryId} |-> @[i]]]

(***************************************************************************)
(* Webhook requests                                                        *)
(***************************************************************************)
MessageEvents ==
    [event : {"messages.upsert"}, remoteJid : Jids, fromMe : BOOLEAN,
     audio : {FALSE}, text : Texts]
    \cup
    [event : {"messages.upsert"}, remoteJid : Jids, fromMe : BOOLEAN,
     audio : {TRUE}, text : {""}]

Events ==
    MessageEvents
    \cup {[event |-> "messages.upsert", remoteJid |-> NoJid, fromMe |-> FALSE, audio |-> FALSE, text |-> "oi"]}
    \cup {[event |-> "connection.update", remoteJid |-> NoJid, fromMe |-> FALSE, audio |-> FALSE, text |-> ""]}

\* Handlers started by a request that have not returned yet.
InFlight ==
    Cardinality({t \in DOMAIN turns :
        /\ turns[t].handler \in {"handleMessage", "handleAudioMessage", "handleAdminMessage"}
        /\ turns[t].pc \notin {"done", "aborted", "failed", "bgExtract", "bgSummary", "bgClassify"}})

\* A request arrives: the bounds on requests and on overlapping handlers.
Admit(newTurn) ==
    /\ Len(turns) < limits.events
    /\ newTurn.pc \in {"done", "cmdSend"} \/ InFlight < limits.inflight
    /\ turns' = Append(turns, newTurn)

startsWithSlash(text) == text \in {"/oi", "/pause", "/resume"}

\* The record kept for one request: what arrived, the HTTP response, and the
\* locals of the handler that was started for it.
NewTurn(e, status, handler, pc) ==
    [event     |-> e.event,
     remoteJid |-> e.remoteJid,
     fromMe    |-> e.fromMe,
     audio     |-> e.audio,
     text      |-> IF handler = "none" THEN "" ELSE e.text,
     pausedAtArrival |-> preferences.botPaused,
     status    |-> status,
     handler   |-> handler,
     pc        |-> pc,
     memId     |-> 0,
     history   |-> <<>>,
     facts     |-> EmptyObj,
     response  |-> "",
     invoked   |-> FALSE,
     audioChosen |-> "unset",
     synth     |-> "",
     ttsTried  |-> <<>>,
     extracted |-> EmptyObj,
     newFacts  |-> EmptyObj,
     sent      |-> <<>>,
     typing    |-> <<>>,
     err       |-> ""]

Ignored(e, status) == NewTurn(e, status, "none", "done")

WebhookPost_PauseCheckFirst(e) ==
    /\ router = RouterAdmin
    /\ LET whatsappId == whatsappIdOf(e.remoteJid)
           parsed == parseCommand(e.text)
           executed == executeCommand(preferences, parsed)
       IN
       IF e.event # "messages.upsert"
       THEN /\ Admit(Ignored(e, "ignored: not a message event"))
            /\ UNCHANGED preferences
       ELSE IF e.remoteJid = NoJid
       THEN /\ Admit(Ignored(e, "400 Missing remoteJid"))
            /\ UNCHANGED preferences
       ELSE IF e.fromMe
       THEN /\ UNCHANGED preferences
            /\ IF /\ config.adminNumber # ""
                  /\ remotePhoneOf(e.remoteJid) = config.adminNumber
                  /\ e.text # ""
               THEN Admit(NewTurn(e, "processing admin", "handleAdminMessage", "adminChat"))
               ELSE Admit(Ignored(e, "ignored: outgoing message"))
       ELSE IF e.audio
       THEN /\ Admit(NewTurn(e, "processing audio", "handleAudioMessage", "typingOn"))
            /\ UNCHANGED preferences
       ELSE IF e.text = ""
       THEN /\ Admit(Ignored(e, "ignored: no text content"))
            /\ UNCHANGED preferences
       ELSE IF isBotPaused
       THEN /\ Admit(Ignored(e, "ignored: bot paused"))
            /\ UNCHANGED preferences
       ELSE IF isAdmin(whatsappId) /\ parsed # NoCommand /\ executed.result # ""
       THEN /\ preferences' = executed.prefs
            /\ Admit(NewTurn(e, "admin command processed", "adminCommand", "cmdSend"))
       ELSE /\ Admit(NewTurn(e, "processing", "handleMessage", "typingOn"))
            /\ UNCHANGED preferences
    /\ UNCHANGED <<router, config, db, clock, limits, resolverVars>>

\* router.post('/') of the router that knows the admin controller.
WebhookPost(e) ==
    /\ router = RouterAdmin
    /\ LET whatsappId == whatsappIdOf(e.remoteJid)
           parsed == parseCommand(e.text)
           executed == executeCommand(preferences, parsed)
       IN
       IF e.event # "messages.upsert"
       THEN /\ Admit(Ignored(e, "ignored: not a message event"))
            /\ UNCHANGED preferences
       ELSE IF e.remoteJid = NoJid
       THEN /\ Admit(Ignored(e, "400 Missing remoteJid"))
            /\ UNCHANGED preferences
       ELSE IF e.fromMe
       THEN /\ UNCHANGED preferences
            /\ IF /\ config.adminNumber # ""
                  /\ remotePhoneOf(e.remoteJid) = config.adminNumber
                  /\ e.text # ""
               THEN Admit(NewTurn(e, "processing admin", "handleAdminMessage", "adminChat"))
               ELSE Admit(Ignored(e, "ignored: outgoing message"))
       ELSE IF e.audio
       THEN /\ Admit(NewTurn(e, "processing audio", "handleAudioMessage", "typingOn"))
            /\ UNCHANGED preferences
       ELSE IF e.text = ""
       THEN /\ Admit(Ignored(e, "ignored: no text content"))
            /\ UNCHANGED preferences
       ELSE IF isAdmin(whatsappId) /\ parsed # NoCommand /\ executed.result # ""
       THEN /\ preferences' = executed.prefs
            /\ Admit(NewTurn(e, "admin command processed", "adminCommand", "cmdSend"))
       ELSE IF isBotPaused /\ ~isAdmin(whatsappId)
       THEN /\ Admit(Ignored(e, "ignored: bot paused"))
            /\ UNCHANGED preferences
       ELSE /\ Admit(NewTurn(e, "processing", "handleMessage", "typingOn"))
            /\ UNCHANGED preferences
    /\ UNCHANGED <<router, config, db, clock, limits, resolverVars>>

\* router.post('/') of the router without the admin controller.
WebhookPostLegacy(e) ==
    /\ router = RouterLegacy
    /\ IF e.event # "messages.upsert"
       THEN Admit(Ignored(e, "ignored: not a message event"))
       ELSE IF e.remoteJid = NoJid
       THEN Admit(Ignored(e, "400 Missing remoteJid"))
       ELSE IF e.fromMe /\ config.adminNumber # ""
       THEN IF e.text # "" /\ (startsWithSlash(e.text) \/ remotePhoneOf(e.remoteJid) = config.adminNumber)
            THEN Admit(NewTurn(e, "processing admin", "handleAdminMessage", "adminChat"))
            ELSE Admit(Ignored(e, "ignored: own message"))
       ELSE IF e.fromMe
       THEN Admit(Ignored(e, "ignored: own message"))
       ELSE IF e.audio
       THEN Admit(NewTurn(e, "processing audio", "handleAudioMessage", "typingOn"))
       ELSE IF e.text = ""
       THEN Admit(Ignored(e, "ignored: no text content"))
       ELSE Admit(NewTurn(e, "processing", "handleMessage", "typingOn"))
    /\ UNCHANGED <<router, config, preferences, db, clock, limits, resolverVars>>

(***************************************************************************)
(* Inputs of the environment at a step                                     *)
(***************************************************************************)
Instance == "teste-instance"

\* How many statements the store still executes: every point of failure, or none.
Budgets(n) == (0 .. n - 1) \cup {NoFailure}

\* Seconds elapsed on the store clock since the previous store write.
Elapsed == IF clock < MaxClock THEN {0, 1} ELSE {0}

\* What the services return: the transcription of an audio, the model's reply.
Transcription == "transcricao"
Reply         == "reply"

\* SELECT role, content, sentiment, created_at
RowsOut(rows) == [i \in DOMAIN rows |-> [role |-> rows[i].role, content |-> rows[i].content,
                                         created_at |-> rows[i].created_at]]

Set(t, f) == turns' = [turns EXCEPT ![t] = f]

Running(t, handler, pc) ==
    /\ t \in DOMAIN turns
    /\ turns[t].handler = handler
    /\ turns[t].pc = pc

(***************************************************************************)
(* EvolutionClient.setTyping                                               *)
(***************************************************************************)
\* What can happen inside setTyping: the presence is posted, the post fails
\* or times out, or getDestinationJid throws.
TypingOutcomes == {"set", "postFailed", "resolveFailed"}

setTyping_Rethrows(outcome) == IF outcome = "set" THEN "returned" ELSE "threw"

\* try { getDestinationJid; axios.post(updatePresence) } catch { logger.debug }
setTyping(outcome) == "returned"

\* The turn after a setTyping call with the given outcome has returned.
Typed(t, outcome) == [turns[t] EXCEPT !.typing = Append(@, outcome)]

\* A throw of setTyping inside the try of a handler reaches its catch block.
TypingThrew(t, outcome) ==
    [Typed(t, outcome) EXCEPT !.pc = "catchTypingOff", !.err = "Typing indicator failed"]

(***************************************************************************)
(* ElevenLabsClient                                                        *)
(***************************************************************************)
\* openAITTS: throws when the key is missing or the request fails.
openAITTS(tried, openaiOk) ==
    IF ~config.openaiKey THEN [result |-> "throw", tried |-> tried]
    ELSE IF openaiOk THEN [result |-> "audio", tried |-> Append(tried, "openai")]
    ELSE [result |-> "throw", tried |-> Append(tried, "openai")]

textToSpeech_NoFallback(elevenOk, openaiOk) ==
    IF ~config.elevenlabsKey THEN [result |-> "null", tried |-> <<>>]
    ELSE IF elevenOk THEN [result |-> "audio", tried |-> <<"elevenlabs">>]
    ELSE [result |-> "throw", tried |-> <<"elevenlabs">>]

\* textToSpeech: null when unconfigured, else ElevenLabs, else the OpenAI fallback.
textToSpeech(elevenOk, openaiOk) ==
    IF ~config.elevenlabsKey THEN [result |-> "null", tried |-> <<>>]
    ELSE IF elevenOk THEN [result |-> "audio", tried |-> <<"elevenlabs">>]
    ELSE openAITTS(<<"elevenlabs">>, openaiOk)

(***************************************************************************)
(* handleMessage                                                           *)
(***************************************************************************)
HM_TypingOnReturn_ReadFirst(t, budget, tie, dt) ==
    /\ Running(t, "handleMessage", "typingOn")
    /\ \E o \in limits.typing :
       IF setTyping(o) = "threw"
       THEN Set(t, TypingThrew(t, o)) /\ UNCHANGED <<db, clock>>
       ELSE
       LET now == clock + dt
           whatsappId == whatsappIdOf(turns[t].remoteJid)
           c1 == getOrCreateMemory(Ctx(db, budget), whatsappId, Instance, now)
           c3 == getHistory(c1, c1.ret, maxHistoryMessages, tie)
           c2 == addToHistory(c3, c1.ret, "user", turns[t].text, now)
           c4 == getFacts(c2, c1.ret)
           c5 == getBusinessContext(c4, Instance)
       IN /\ db' = c5.db
          /\ clock' = now
          /\ IF c5.ok
             THEN Set(t, [Typed(t, o) EXCEPT !.pc = "generating", !.memId = c1.ret,
                                          !.history = RowsOut(c3.ret), !.facts = c4.ret,
                                          !.invoked = TRUE])
             ELSE Set(t, [Typed(t, o) EXCEPT !.pc = "catchTypingOff", !.err = c5.err,
                                          !.memId = IF c1.ok THEN c1.ret ELSE 0])
    /\ UNCHANGED <<router, config, preferences, limits, resolverVars>>

\* Steps 1-7: setTyping(true) returned (its failure is swallowed); memory,
\* history and context are read and the model request is issued.
HM_TypingOnReturn(t, budget, tie, dt) ==
    /\ Running(t, "handleMessage", "typingOn")
    /\ \E o \in limits.typing :
       IF setTyping(o) = "threw"
       THEN Set(t, TypingThrew(t, o)) /\ UNCHANGED <<db, clock>>
       ELSE
       LET now == clock + dt
           whatsappId == whatsappIdOf(turns[t].remoteJid)
       IN \E c1 \in {getOrCreateMemory(Ctx(db, budget), whatsappId, Instance, now)} :
          \E c2 \in {addToHistory(c1, c1.ret, "user", turns[t].text, now)} :
          \E c3 \in {getHistory(c2, c1.ret, maxHistoryMessages, tie)} :
          \E c4 \in {getFacts(c3, c1.ret)} :
          \E c5 \in {getBusinessContext(c4, Instance)} :
             /\ db' = c5.db
             /\ clock' = now
             /\ IF c5.ok
                THEN Set(t, [Typed(t, o) EXCEPT !.pc = "generating", !.memId = c1.ret,
                                             !.history = RowsOut(c3.ret), !.facts = c4.ret,
                                             !.invoked = TRUE])
                ELSE Set(t, [Typed(t, o) EXCEPT !.pc = "catchTypingOff", !.err = c5.err,
                                             !.memId = IF c1.ok THEN c1.ret ELSE 0])
    /\ UNCHANGED <<router, config, preferences, limits, resolverVars>>

\* Steps 7-9: generateResponse returned or threw; the reply is saved and
\* setTyping(false) is requested.
HM_GenerateReturn(t, ok, budget, dt) ==
    /\ Running(t, "handleMessage", "generating")
    /\ IF ~ok
       THEN /\ Set(t, [turns[t] EXCEPT !.pc = "catchTypingOff", !.history = <<>>,
                                       !.err = "Failed to generate AI response"])
            /\ UNCHANGED <<db, clock>>
       ELSE LET now == clock + dt
                c1 == addToHistory(Ctx(db, budget), turns[t].memId, "assistant", Reply, now)
            IN /\ db' = c1.db
               /\ clock' = now
               /\ IF c1.ok
                  THEN Set(t, [turns[t] EXCEPT !.pc = "typingOff", !.history = <<>>, !.response = Reply])
                  ELSE Set(t, [turns[t] EXCEPT !.pc = "catchTypingOff", !.history = <<>>,
                                               !.response = Reply, !.err = c1.err])
    /\ UNCHANGED <<router, config, preferences, limits, resolverVars>>

HM_TypingOffReturn_StopsWhenPaused(t) ==
    /\ Running(t, "handleMessage", "typingOff")
    /\ \E o \in limits.typing :
       IF isBotPaused
       THEN Set(t, [Typed(t, o) EXCEPT !.pc = "aborted"])
       ELSE IF shouldRespondWithAudio(FALSE)
       THEN Set(t, [Typed(t, o) EXCEPT !.pc = "tts", !.audioChosen = "audio"])
       ELSE Set(t, [Typed(t, o) EXCEPT !.pc = "sendText", !.audioChosen = "text"])
    /\ UNCHANGED <<router, config, preferences, db, clock, limits, resolverVars>>

\* Step 9: setTyping(false) returned; the modality is chosen.
HM_TypingOffReturn(t) ==
    /\ Running(t, "handleMessage", "typingOff")
    /\ \E o \in limits.typing :
       IF setTyping(o) = "threw"
       THEN Set(t, TypingThrew(t, o))
       ELSE IF shouldRespondWithAudio(FALSE)
       THEN Set(t, [Typed(t, o) EXCEPT !.pc = "tts", !.audioChosen = "audio"])
       ELSE Set(t, [Typed(t, o) EXCEPT !.pc = "sendText", !.audioChosen = "text"])
    /\ UNCHANGED <<router, config, preferences, db, clock, limits, resolverVars>>

\* elevenlabs.textToSpeech(response) returned or threw.
HM_TtsReturn(t, elevenOk, openaiOk) ==
    /\ Running(t, "handleMessage", "tts")
    /\ LET r == textToSpeech(elevenOk, openaiOk)
       IN Set(t, [turns[t] EXCEPT !.ttsTried = r.tried, !.synth = r.result,
                                  !.pc = CASE r.result = "audio" -> "sendAudio"
                                           [] r.result = "null"  -> "sendTextTry"
                                           [] OTHER              -> "sendTextCatch"])
    /\ UNCHANGED <<router, config, preferences, db, clock, limits, resolverVars>>

\* Step 10, synchronous part of processBackgroundTasks: the facts request is issued.
StartBackground(f) == [f EXCEPT !.pc = "bgExtract"]

\* evolution.sendAudio returned or threw (inside the try of step 9).
HM_SendAudioReturn(t, ok) ==
    /\ Running(t, "handleMessage", "sendAudio")
    /\ IF ok
       THEN Set(t, StartBackground([turns[t] EXCEPT !.sent = Append(@, <<"audio", "reply">>)]))
       ELSE Set(t, [turns[t] EXCEPT !.pc = "sendTextCatch"])
    /\ UNCHANGED <<router, config, preferences, db, clock, limits, resolverVars>>

HM_SendTextReturn_Regenerates(t, ok) ==
    /\ t \in DOMAIN turns
    /\ turns[t].handler = "handleMessage"
    /\ turns[t].pc \in {"sendTextTry", "sendTextCatch", "sendText"}
    /\ IF ok
       THEN Set(t, StartBackground([turns[t] EXCEPT !.sent = Append(@, <<"text", "reply">>)]))
       ELSE Set(t, [turns[t] EXCEPT !.pc = "generating"])
    /\ UNCHANGED <<router, config, preferences, db, clock, limits, resolverVars>>

\* evolution.sendMessage(response) returned or threw: in the try after a null
\* synthesis, in catch (ttsError), or in the text branch.
HM_SendTextReturn(t, ok) ==
    /\ t \in DOMAIN turns
    /\ turns[t].handler = "handleMessage"
    /\ turns[t].pc \in {"sendTextTry", "sendTextCatch", "sendText"}
    /\ IF ok
       THEN Set(t, StartBackground([turns[t] EXCEPT !.sent = Append(@, <<"text", "reply">>)]))
       ELSE IF turns[t].pc = "sendTextTry"
       THEN Set(t, [turns[t] EXCEPT !.pc = "sendTextCatch"])
       ELSE Set(t, [turns[t] EXCEPT !.pc = "catchTypingOff", !.err = "Failed to send message"])
    /\ UNCHANGED <<router, config, preferences, db, clock, limits, resolverVars>>

HM_CatchReturn_Responds(t) ==
    /\ Running(t, "handleMessage", "catchTypingOff")
    /\ \E o \in limits.typing :
          Set(t, [Typed(t, o) EXCEPT !.pc = "aborted", !.facts = EmptyObj,
                                     !.status = "500 Internal server error"])
    /\ UNCHANGED <<router, config, preferences, db, clock, limits, resolverVars>>

\* catch (error): setTyping(false) returned; the error is rethrown to the router's logger.
HM_CatchReturn(t) ==
    /\ Running(t, "handleMessage", "catchTypingOff")
    /\ \E o \in limits.typing : Set(t, [Typed(t, o) EXCEPT !.pc = "aborted", !.facts = EmptyObj])
    /\ UNCHANGED <<router, config, preferences, db, clock, limits, resolverVars>>

(***************************************************************************)
(* processBackgroundTasks                                                  *)
(***************************************************************************)
\* Objects extractFacts may return ({} also when the request fails).
Patches == {EmptyObj, "nome" :> "Bia", "empresa" :> "Acme"}


\* extractFacts returned: the push name is added, the facts are merged, and
\* summary and lead classification are requested when due.
BG_ExtractReturn(t, extracted, budget, tie) ==
    /\ Running(t, "handleMessage", "bgExtract")
    /\ LET pushName == PushNameOf(turns[t].remoteJid)
           memoryId == turns[t].memId
           newFacts == IF pushName # "" /\ pushName # "Unknown" /\ "nome" \notin DOMAIN turns[t].facts
                       THEN Spread(extracted, "nome" :> pushName)
                       ELSE extracted
           c0 == Ctx(db, budget)
       IN \E c1 \in {IF DOMAIN newFacts # {} THEN updateFacts(c0, memoryId, newFacts) ELSE c0} :
          \E c2 \in {needsSummary(c1, memoryId)} :
          \E summaryDue \in {c2.ok /\ c2.ret} :
          \E c3 \in {IF summaryDue
                     THEN LET h == getHistory(c2, memoryId, summaryHistoryLimit, tie)
                          IN Exec(h, h.db, h.ret)
                     ELSE getHistory(c2, memoryId, maxHistoryMessages, tie)} :
          \E classifyDue \in {c3.ok /\ ~summaryDue /\ Len(c3.ret) % leadPeriod = 0} :
          \E c4 \in {IF classifyDue THEN getFacts(c3, memoryId) ELSE c3} :
             /\ db' = c4.db
             /\ Set(t, [turns[t] EXCEPT !.facts = EmptyObj, !.extracted = extracted,
                                        !.newFacts = newFacts, !.err = c4.err,
                                        !.pc = IF ~c4.ok THEN "done"
                                               ELSE IF summaryDue THEN "bgSummary"
                                               ELSE IF classifyDue THEN "bgClassify"
                                               ELSE "done"])
    /\ UNCHANGED <<router, config, preferences, clock, limits, resolverVars>>

\* What generateSummary returns ('' for both when the request fails).
Summaries == {[short |-> "", detailed |-> ""], [short |-> "resumo", detailed |-> "resumo detalhado"]}

\* generateSummary returned: the summaries are written unless both are empty,
\* and lead classification is requested when due.
BG_SummaryReturn(t, summaries, budget, tie) ==
    /\ Running(t, "handleMessage", "bgSummary")
    /\ LET memoryId == turns[t].memId
           c0 == Ctx(db, budget)
       IN \E c1 \in {IF summaries.short # "" \/ summaries.detailed # ""
                     THEN updateMemory(c0, memoryId, [summary_short |-> summaries.short,
                                                      summary_detailed |-> summaries.detailed])
                     ELSE c0} :
          \E c2 \in {getHistory(c1, memoryId, maxHistoryMessages, tie)} :
          \E classifyDue \in {c2.ok /\ Len(c2.ret) % leadPeriod = 0} :
          \E c3 \in {IF classifyDue THEN getFacts(c2, memoryId) ELSE c2} :
             /\ db' = c3.db
             /\ Set(t, [turns[t] EXCEPT !.err = c3.err,
                                        !.pc = IF c3.ok /\ classifyDue THEN "bgClassify" ELSE "done"])
    /\ UNCHANGED <<router, config, preferences, clock, limits, resolverVars>>

BG_ClassifyReturn_CountsContact(t, classification, budget) ==
    /\ Running(t, "handleMessage", "bgClassify")
    /\ LET c1 == updateMemory(Ctx(db, budget), turns[t].memId,
                              [lead_stage |-> classification.stage,
                               lead_temperature |-> classification.temperature,
                               total_messages |-> Len(HistoryOf(db, turns[t].memId)) + 1])
       IN /\ db' = c1.db
          /\ Set(t, [turns[t] EXCEPT !.pc = "done", !.err = c1.err])
    /\ UNCHANGED <<router, config, preferences, clock, limits, resolverVars>>

\* classifyLead returned: stage and temperature are written.
BG_ClassifyReturn(t, classification, budget) ==
    /\ Running(t, "handleMessage", "bgClassify")
    /\ LET c1 == updateMemory(Ctx(db, budget), turns[t].memId,
                              [lead_stage |-> classification.stage,
                               lead_temperature |-> classification.temperature])
       IN /\ db' = c1.db
          /\ Set(t, [turns[t] EXCEPT !.pc = "done", !.err = c1.err])
    /\ UNCHANGED <<router, config, preferences, clock, limits, resolverVars>>

(***************************************************************************)
(* handleAudioMessage                                                      *)
(***************************************************************************)
\* setTyping(true) returned; the audio is requested from the gateway.
HAM_TypingOnReturn(t) ==
    /\ Running(t, "handleAudioMessage", "typingOn")
    /\ \E o \in limits.typing :
       IF setTyping(o) = "threw"
       THEN Set(t, TypingThrew(t, o))
       ELSE Set(t, [Typed(t, o) EXCEPT !.pc = "download"])
    /\ UNCHANGED <<router, config, preferences, db, clock, limits, resolverVars>>

\* getBase64Media returned ('' on any failure).
HAM_DownloadReturn(t, ok) ==
    /\ Running(t, "handleAudioMessage", "download")
    /\ Set(t, [turns[t] EXCEPT !.pc = IF ok THEN "transcribe" ELSE "apologyNoAudio"])
    /\ UNCHANGED <<router, config, preferences, db, clock, limits, resolverVars>>

\* openai.transcribeAudio returned or threw; on success memory, history and
\* context are read and the model request is issued.
HAM_TranscribeReturn(t, ok, budget, tie, dt) ==
    /\ Running(t, "handleAudioMessage", "transcribe")
    /\ IF ~ok
       THEN /\ Set(t, [turns[t] EXCEPT !.pc = "apologyTranscribe"])
            /\ UNCHANGED <<db, clock>>
       ELSE LET now == clock + dt
                whatsappId == whatsappIdOf(turns[t].remoteJid)
            IN \E c1 \in {getOrCreateMemory(Ctx(db, budget), whatsappId, Instance, now)} :
               \E c2 \in {addToHistory(c1, c1.ret, "user", Transcription, now)} :
               \E c3 \in {getHistory(c2, c1.ret, maxHistoryMessages, tie)} :
               \E c4 \in {getFacts(c3, c1.ret)} :
               \E c5 \in {getBusinessContext(c4, Instance)} :
                  /\ db' = c5.db
                  /\ clock' = now
                  /\ IF c5.ok
                     THEN Set(t, [turns[t] EXCEPT !.pc = "generating", !.memId = c1.ret,
                                                  !.history = RowsOut(c3.ret), !.invoked = TRUE])
                     ELSE Set(t, [turns[t] EXCEPT !.pc = "catchTypingOff", !.err = c5.err,
                                                  !.memId = IF c1.ok THEN c1.ret ELSE 0])
    /\ UNCHANGED <<router, config, preferences, limits, resolverVars>>

HAM_ApologyReturn_FallsThrough(t, ok) ==
    /\ t \in DOMAIN turns
    /\ turns[t].handler = "handleAudioMessage"
    /\ turns[t].pc \in {"apologyNoAudio", "apologyTranscribe"}
    /\ Set(t, [turns[t] EXCEPT !.pc = "catchTypingOff", !.err = "Failed to send message",
                               !.sent = IF ok THEN Append(@, <<"text", turns[t].pc>>) ELSE @])
    /\ UNCHANGED <<router, config, preferences, db, clock, limits, resolverVars>>

\* The apology for missing audio or failed transcription was sent, or sending threw.
HAM_ApologyReturn(t, ok) ==
    /\ t \in DOMAIN turns
    /\ turns[t].handler = "handleAudioMessage"
    /\ turns[t].pc \in {"apologyNoAudio", "apologyTranscribe"}
    /\ IF ok
       THEN Set(t, [turns[t] EXCEPT !.pc = "failed", !.sent = Append(@, <<"text", turns[t].pc>>)])
       ELSE Set(t, [turns[t] EXCEPT !.pc = "catchTypingOff", !.err = "Failed to send message"])
    /\ UNCHANGED <<router, config, preferences, db, clock, limits, resolverVars>>

\* generateResponse returned or threw; the reply is saved and setTyping(false) requested.
HAM_GenerateReturn(t, ok, budget, dt) ==
    /\ Running(t, "handleAudioMessage", "generating")
    /\ IF ~ok
       THEN /\ Set(t, [turns[t] EXCEPT !.pc = "catchTypingOff", !.history = <<>>,
                                       !.err = "Failed to generate AI response"])
            /\ UNCHANGED <<db, clock>>
       ELSE LET now == clock + dt
                c1 == addToHistory(Ctx(db, budget), turns[t].memId, "assistant", Reply, now)
            IN /\ db' = c1.db
               /\ clock' = now
               /\ IF c1.ok
                  THEN Set(t, [turns[t] EXCEPT !.pc = "typingOff", !.history = <<>>, !.response = Reply])
                  ELSE Set(t, [turns[t] EXCEPT !.pc = "catchTypingOff", !.history = <<>>,
                                               !.response = Reply, !.err = c1.err])
    /\ UNCHANGED <<router, config, preferences, limits, resolverVars>>

\* setTyping(false) returned; synthesis is requested whatever the response mode is.
HAM_TypingOffReturn(t) ==
    /\ Running(t, "handleAudioMessage", "typingOff")
    /\ \E o \in limits.typing :
       IF setTyping(o) = "threw"
       THEN Set(t, TypingThrew(t, o))
       ELSE Set(t, [Typed(t, o) EXCEPT !.pc = "tts", !.audioChosen = "audio"])
    /\ UNCHANGED <<router, config, preferences, db, clock, limits, resolverVars>>

\* elevenlabs.textToSpeech(response) returned or threw.
HAM_TtsReturn(t, elevenOk, openaiOk) ==
    /\ Running(t, "handleAudioMessage", "tts")
    /\ LET r == textToSpeech(elevenOk, openaiOk)
       IN Set(t, [turns[t] EXCEPT !.ttsTried = r.tried, !.synth = r.result,
                                  !.pc = CASE r.result = "audio" -> "sendAudio"
                                           [] r.result = "null"  -> "sendTextTry"
                                           [] OTHER              -> "sendTextCatch"])
    /\ UNCHANGED <<router, config, preferences, db, clock, limits, resolverVars>>

\* evolution.sendAudio returned or threw.
HAM_SendAudioReturn(t, ok) ==
    /\ Running(t, "handleAudioMessage", "sendAudio")
    /\ IF ok
       THEN Set(t, [turns[t] EXCEPT !.pc = "done", !.sent = Append(@, <<"audio", "reply">>)])
       ELSE Set(t, [turns[t] EXCEPT !.pc = "sendTextCatch"])
    /\ UNCHANGED <<router, config, preferences, db, clock, limits, resolverVars>>

\* The text fallback was sent, or sending threw.
HAM_SendTextReturn(t, ok) ==
    /\ t \in DOMAIN turns
    /\ turns[t].handler = "handleAudioMessage"
    /\ turns[t].pc \in {"sendTextTry", "sendTextCatch"}
    /\ IF ok
       THEN Set(t, [turns[t] EXCEPT !.pc = "done", !.sent = Append(@, <<"text", "reply">>)])
       ELSE IF turns[t].pc = "sendTextTry"
       THEN Set(t, [turns[t] EXCEPT !.pc = "sendTextCatch"])
       ELSE Set(t, [turns[t] EXCEPT !.pc = "catchTypingOff", !.err = "Failed to send message"])
    /\ UNCHANGED <<router, config, preferences, db, clock, limits, resolverVars>>

\* catch (error): setTyping(false) returned; the error apology is sent.
HAM_CatchTypingReturn(t) ==
    /\ Running(t, "handleAudioMessage", "catchTypingOff")
    /\ \E o \in limits.typing : Set(t, [Typed(t, o) EXCEPT !.pc = "catchApology"])
    /\ UNCHANGED <<router, config, preferences, db, clock, limits, resolverVars>>

HAM_CatchApologyReturn_SendsError(t, ok) ==
    /\ Running(t, "handleAudioMessage", "catchApology")
    /\ Set(t, [turns[t] EXCEPT !.pc = "aborted",
                               !.sent = IF ok THEN Append(@, <<"text", turns[t].err>>) ELSE @])
    /\ UNCHANGED <<router, config, preferences, db, clock, limits, resolverVars>>

\* catch (error): the error apology was sent, or sending threw and was swallowed.
HAM_CatchApologyReturn(t, ok) ==
    /\ Running(t, "handleAudioMessage", "catchApology")
    /\ Set(t, [turns[t] EXCEPT !.pc = "aborted",
                               !.sent = IF ok THEN Append(@, <<"text", "apologyError">>) ELSE @])
    /\ UNCHANGED <<router, config, preferences, db, clock, limits, resolverVars>>

(***************************************************************************)
(* handleAdminMessage and the router's command reply                       *)
(***************************************************************************)
\* aiProcessor.chat returned or threw; no command is parsed or executed.
ADM_ChatReturn(t, ok) ==
    /\ Running(t, "handleAdminMessage", "adminChat")
    /\ Set(t, [turns[t] EXCEPT !.invoked = TRUE, !.response = IF ok THEN Reply ELSE "",
                               !.pc = IF ok THEN "adminSend" ELSE "aborted"])
    /\ UNCHANGED <<router, config, preferences, db, clock, limits, resolverVars>>

\* evolution.sendMessage(response) to the chat the message came from.
ADM_SendReturn(t, ok) ==
    /\ Running(t, "handleAdminMessage", "adminSend")
    /\ Set(t, [turns[t] EXCEPT !.pc = IF ok THEN "done" ELSE "aborted",
                               !.sent = IF ok THEN Append(@, <<"text", "reply">>) ELSE @])
    /\ UNCHANGED <<router, config, preferences, db, clock, limits, resolverVars>>

\* await evolution.sendMessage(instanceName, key.remoteJid, result)
CMD_SendReturn(t, ok) ==
    /\ Running(t, "adminCommand", "cmdSend")
    /\ Set(t, [turns[t] EXCEPT !.pc = "done",
                               !.sent = IF ok THEN Append(@, <<"text", "result">>) ELSE @])
    /\ UNCHANGED <<router, config, preferences, db, clock, limits, resolverVars>>

(***************************************************************************)
(* DELETE /history/:userId                                                 *)
(***************************************************************************)
EraseRequest(jid) ==
    [event |-> "DELETE /history", remoteJid |-> jid, fromMe |-> FALSE, audio |-> FALSE, text |-> ""]

EraseHistory(jid) ==
    /\ LET memoryId == SelectMemoryId(db, whatsappIdOf(jid), Instance)
       IN IF memoryId = 0
          THEN /\ Admit(Ignored(EraseRequest(jid), "404 User not found"))
               /\ UNCHANGED db
          ELSE /\ Admit(Ignored(EraseRequest(jid), "History deleted"))
               /\ db' = deleteUser(db, memoryId)
    /\ UNCHANGED <<router, config, preferences, clock, limits, resolverVars>>

(***************************************************************************)
(* LIDResolver (services/lid-resolver.js)                                  *)
(***************************************************************************)
MaxCalls     == 2    \* sendMessage calls and contact events
MaxPending   == 1    \* sendMessage calls that have not returned when one is made
MaxDirectory == 3    \* entries of the contact directory the gateway returns

\* Statements of a lookup (SELECT, ensureTable) and of saveMapping (ensureTable, INSERT).
LookupStatements == 2
SaveStatements   == 2

OtherPhone == "5511977776666"
NoPhone    == ""

\* Another account that carries the same display name as the contact.
OtherJid == [user |-> OtherPhone, server |-> WaServer]

\* jid && jid.includes('@lid')
isLID(jid) == jid.server = LidServer

\* c.remoteJid?.endsWith('@s.whatsapp.net')
isStable(c) == c.remoteJid.server = WaServer

\* Profile picture URLs as character sequences; <<>> is a missing URL.
NoUrl == <<>>
Urls  == {NoUrl, <<"p", "?", "a">>, <<"p", "?", "b">>, <<"q", "?", "a">>}

\* url.split('?')[0]
RECURSIVE BeforeQuery(_)
BeforeQuery(url) ==
    IF url = <<>> \/ Head(url) = "?" THEN <<>>
    ELSE <<Head(url)>> \o BeforeQuery(Tail(url))

sameProfilePic_Exact(url1, url2) ==
    IF url1 = NoUrl \/ url2 = NoUrl THEN FALSE
    ELSE url1 = url2

sameProfilePic(url1, url2) ==
    IF url1 = NoUrl \/ url2 = NoUrl THEN FALSE
    ELSE BeforeQuery(url1) = BeforeQuery(url2)

\* Index of the first element of s in keep, 0 when there is none.
FirstIn(s, keep) ==
    LET hits == {i \in DOMAIN s : s[i] \in keep}
    IN IF hits = {} THEN 0 ELSE CHOOSE i \in hits : \A j \in hits : i <= j

\* contacts.find(c => c.remoteJid === lidJid)
findContact(contacts, lidJid) ==
    FirstIn(contacts, {contacts[i] : i \in {j \in DOMAIN contacts : contacts[j].remoteJid = lidJid}})

\* Strategy 1: the first entry with a stable address and the same picture.
avatarMatch(contacts, picUrl) ==
    IF picUrl = NoUrl THEN 0
    ELSE FirstIn(contacts, {contacts[i] : i \in {j \in DOMAIN contacts :
                                /\ isStable(contacts[j])
                                /\ sameProfilePic(contacts[j].profilePicUrl, picUrl)}})

\* contacts.filter(c => stable && c.pushName === pushName)
nameCandidates(contacts, pushName) ==
    SelectSeq(contacts, LAMBDA c : isStable(c) /\ c.pushName = pushName)

displayNameMatch_FirstCandidate(contacts, pushName) ==
    IF pushName = "" THEN NoPhone
    ELSE LET candidates == nameCandidates(contacts, pushName)
         IN IF Len(candidates) >= 1 THEN candidates[1].remoteJid.user ELSE NoPhone

\* Strategy 2: the phone of the only candidate, null otherwise.
displayNameMatch(contacts, pushName) ==
    IF pushName = "" THEN NoPhone
    ELSE LET candidates == nameCandidates(contacts, pushName)
         IN IF Len(candidates) = 1 THEN candidates[1].remoteJid.user ELSE NoPhone

NoMatch == [phone |-> NoPhone, pushName |-> "", source |-> "none"]

\* Lines 100-136: what the directory heuristics decide for lidJid.
matchContacts(contacts, lidJid) ==
    LET k == findContact(contacts, lidJid)
    IN IF k = 0 THEN NoMatch
       ELSE LET picUrl   == contacts[k].profilePicUrl
                pushName == contacts[k].pushName
                a        == avatarMatch(contacts, picUrl)
                phone    == displayNameMatch(contacts, pushName)
            IN IF a # 0
               THEN [phone |-> contacts[a].remoteJid.user, pushName |-> pushName, source |-> "profilePic"]
               ELSE IF phone # NoPhone
               THEN [phone |-> phone, pushName |-> pushName, source |-> "pushName"]
               ELSE NoMatch

\* The resolver's stores during one segment: r.ok is FALSE while an exception
\* propagates, r.budget counts the SQLite statements that still succeed.
RCtx(budget) ==
    [cache |-> cache, table |-> lid_mappings, saves |-> pgSaves, ok |-> TRUE, budget |-> budget]

EmptyTable == [exists |-> FALSE, rows |-> EmptyObj]

\* db.exec('CREATE TABLE IF NOT EXISTS lid_mappings ...')
ensureTable(r) ==
    IF ~r.ok THEN r
    ELSE IF r.budget = 0 THEN [r EXCEPT !.ok = FALSE]
    ELSE [r EXCEPT !.table.exists = TRUE, !.budget = @ - 1]

insertMapping_NoCache(r, lidJid, phone, pushName, source) ==
    IF r.budget = 0 THEN r
    ELSE [r EXCEPT !.table.rows = (lidJid :> [phone |-> phone, push_name |-> pushName, source |-> source]) @@ @,
                   !.budget = @ - 1]

insertMapping_CacheFirst(r, lidJid, phone, pushName, source) ==
    IF r.budget = 0 THEN [r EXCEPT !.cache = (lidJid :> phone) @@ @]
    ELSE [r EXCEPT !.table.rows = (lidJid :> [phone |-> phone, push_name |-> pushName, source |-> source]) @@ @,
                   !.cache = (lidJid :> phone) @@ @,
                   !.budget = @ - 1]

\* INSERT OR REPLACE INTO lid_mappings, then cache.set; a failure is logged.
insertMapping(r, lidJid, phone, pushName, source) ==
    IF r.budget = 0 THEN r
    ELSE [r EXCEPT !.table.rows = (lidJid :> [phone |-> phone, push_name |-> pushName, source |-> source]) @@ @,
                   !.cache = (lidJid :> phone) @@ @,
                   !.budget = @ - 1]

\* saveMapping: ensureTable (outside the try), the insert, and the PostgreSQL
\* save that is started and not awaited.
saveMapping(r, lidJid, phone, pushName, source) ==
    LET r1 == ensureTable(r)
        r2 == insertMapping(r1, lidJid, phone, pushName, source)
    IN IF ~r1.ok THEN r1
       ELSE IF source = "postgres_sync" THEN r2
       ELSE [r2 EXCEPT !.saves = Append(@, [lid_jid |-> lidJid, phone |-> phone, push_name |-> pushName,
                                            source |-> source, pc |-> "account"])]

\* getDestinationJid, after resolve has returned phone (NoPhone = null).
getDestinationJid_PhoneAlways(remoteJid, phone) ==
    [user |-> phone, server |-> WaServer]

getDestinationJid(remoteJid, phone) ==
    IF phone # NoPhone THEN [user |-> phone, server |-> WaServer] ELSE remoteJid

\* learnFromContact: a stable id and a linked id give a 'contacts_event' mapping;
\* whatever saveMapping throws is caught.
learnFromContact(r, contactData) ==
    IF contactData.id.server = WaServer /\ contactData.lid.server = LidServer
    THEN LET r1 == saveMapping(r, contactData.lid, contactData.id.user, contactData.name, "contacts_event")
         IN IF r1.ok THEN r1 ELSE r
    ELSE r

RECURSIVE learnAll(_, _)
learnAll(r, contacts) ==
    IF contacts = <<>> THEN r
    ELSE learnAll(learnFromContact(r, Head(contacts)), Tail(contacts))

(***************************************************************************)
(* EvolutionClient.sendMessage with LID resolution, and contact events     *)
(***************************************************************************)
NewCall(kind, remoteJid) ==
    [kind |-> kind, remoteJid |-> remoteJid, pc |-> "done", phone |-> NoPhone, source |-> "none",
     fetched |-> FALSE, contacts |-> <<>>, saved |-> "none", dest |-> NoJid, err |-> "",
     resolvedAt |-> 0]

Calling(i, pc) ==
    /\ i \in DOMAIN calls
    /\ calls[i].kind = "sendMessage"
    /\ calls[i].pc = pc

\* resolve returned phone to getDestinationJid; the text is posted to the gateway.
Resolved(c, phone, source, at) ==
    [c EXCEPT !.pc = "post", !.phone = phone, !.source = source,
              !.dest = getDestinationJid(c.remoteJid, phone), !.resolvedAt = at]

\* What saveMapping logged: '[OK] LID resolved via', 'Failed to save LID mapping
\* to SQLite', or nothing because ensureTable threw to the caller.
Saved(r, r1) ==
    IF ~r1.ok THEN "threw"
    ELSE IF r.budget >= SaveStatements THEN "stored"
    ELSE "insertFailed"

Store(r) ==
    /\ cache' = r.cache
    /\ lid_mappings' = r.table
    /\ pgSaves' = r.saves

SendMessage_SkipsCache(remoteJid, budget) ==
    /\ Len(calls) < MaxCalls
    /\ Cardinality({i \in DOMAIN calls : calls[i].pc \notin {"done", "failed"}}) < MaxPending
    /\ LET c  == NewCall("sendMessage", remoteJid)
           at == Len(calls) + 1
           r  == RCtx(budget)
       IN IF ~isLID(remoteJid)
          THEN /\ calls' = Append(calls, [c EXCEPT !.pc = "post", !.dest = remoteJid])
               /\ UNCHANGED <<cache, lid_mappings, pgSaves>>
          ELSE IF r.table.exists /\ r.budget > 0
          THEN IF remoteJid \in DOMAIN r.table.rows
               THEN /\ calls' = Append(calls, Resolved(c, r.table.rows[remoteJid].phone, "sqlite", at))
                    /\ cache' = (remoteJid :> r.table.rows[remoteJid].phone) @@ cache
                    /\ UNCHANGED <<lid_mappings, pgSaves>>
               ELSE /\ calls' = Append(calls, [c EXCEPT !.pc = "pgQuery"])
                    /\ UNCHANGED <<cache, lid_mappings, pgSaves>>
          ELSE LET r1 == ensureTable(r)
               IN /\ Store(r1)
                  /\ IF r1.ok
                     THEN calls' = Append(calls, [c EXCEPT !.pc = "pgQuery"])
                     ELSE calls' = Append(calls, [c EXCEPT !.pc = "failed", !.err = "Failed to send message"])
    /\ UNCHANGED <<pgPool, engineVars>>

\* sendMessage is called: getDestinationJid, and for a linked id resolve up to
\* the PostgreSQL query (cache, then SELECT phone FROM lid_mappings).
SendMessage(remoteJid, budget) ==
    /\ Len(calls) < MaxCalls
    /\ Cardinality({i \in DOMAIN calls : calls[i].pc \notin {"done", "failed"}}) < MaxPending
    /\ LET c  == NewCall("sendMessage", remoteJid)
           at == Len(calls) + 1
           r  == RCtx(budget)
       IN IF ~isLID(remoteJid)
          THEN /\ calls' = Append(calls, [c EXCEPT !.pc = "post", !.dest = remoteJid])
               /\ UNCHANGED <<cache, lid_mappings, pgSaves>>
          ELSE IF remoteJid \in DOMAIN cache
          THEN /\ calls' = Append(calls, Resolved(c, cache[remoteJid], "cache", at))
               /\ UNCHANGED <<cache, lid_mappings, pgSaves>>
          ELSE IF r.table.exists /\ r.budget > 0
          THEN IF remoteJid \in DOMAIN r.table.rows
               THEN /\ calls' = Append(calls, Resolved(c, r.table.rows[remoteJid].phone, "sqlite", at))
                    /\ cache' = (remoteJid :> r.table.rows[remoteJid].phone) @@ cache
                    /\ UNCHANGED <<lid_mappings, pgSaves>>
               ELSE /\ calls' = Append(calls, [c EXCEPT !.pc = "pgQuery"])
                    /\ UNCHANGED <<cache, lid_mappings, pgSaves>>
          ELSE LET r1 == ensureTable(r)
               IN /\ Store(r1)
                  /\ IF r1.ok
                     THEN calls' = Append(calls, [c EXCEPT !.pc = "pgQuery"])
                     ELSE calls' = Append(calls, [c EXCEPT !.pc = "failed", !.err = "Failed to send message"])
    /\ UNCHANGED <<pgPool, engineVars>>

\* pgPool.query(SELECT phone, push_name ...) returned rows or threw.
PgQueryReturn(i, ok, budget) ==
    /\ Calling(i, "pgQuery")
    /\ LET lidJid == calls[i].remoteJid
           found  == ok /\ lidJid \in DOMAIN pgPool.lid_mappings
           r1     == saveMapping(RCtx(budget), lidJid, pgPool.lid_mappings[lidJid].phone,
                                 pgPool.lid_mappings[lidJid].push_name, "postgres_sync")
       IN IF found /\ r1.ok
          THEN /\ Store(r1)
               /\ calls' = [calls EXCEPT ![i] = Resolved([@ EXCEPT !.saved = Saved(RCtx(budget), r1)],
                                                          pgPool.lid_mappings[lidJid].phone,
                                                          "postgres_sync", Len(calls))]
          ELSE /\ calls' = [calls EXCEPT ![i].pc = "fetchContacts", ![i].fetched = TRUE]
               /\ UNCHANGED <<cache, lid_mappings, pgSaves>>
    /\ UNCHANGED <<pgPool, engineVars>>

\* fetchContacts returned the directory ([] when the request failed).
FetchContactsReturn(i, contacts, budget) ==
    /\ Calling(i, "fetchContacts")
    /\ LET lidJid == calls[i].remoteJid
           m      == matchContacts(contacts, lidJid)
           r1     == saveMapping(RCtx(budget), lidJid, m.phone, m.pushName, m.source)
           c      == [calls[i] EXCEPT !.contacts = contacts,
                                      !.saved = IF m.phone # NoPhone THEN Saved(RCtx(budget), r1) ELSE "none"]
       IN IF m.phone # NoPhone /\ r1.ok
          THEN /\ Store(r1)
               /\ calls' = [calls EXCEPT ![i] = Resolved(c, m.phone, m.source, Len(calls))]
          ELSE /\ calls' = [calls EXCEPT ![i] = Resolved(c, NoPhone, "none", Len(calls))]
               /\ UNCHANGED <<cache, lid_mappings, pgSaves>>
    /\ UNCHANGED <<pgPool, engineVars>>

\* axios.post(sendText, {number: destinationJid}) returned 200/201 or failed.
PostReturn(i, ok) ==
    /\ Calling(i, "post")
    /\ IF ok
       THEN calls' = [calls EXCEPT ![i].pc = "done"]
       ELSE calls' = [calls EXCEPT ![i].pc = "failed", ![i].err = "Failed to send message"]
    /\ UNCHANGED <<cache, lid_mappings, pgPool, pgSaves, engineVars>>

\* router.post('/'): a contacts.upsert or contacts.update event.
WebhookContacts(data, budget) ==
    /\ Len(calls) < MaxCalls
    /\ Store(learnAll(RCtx(budget), data))
    /\ calls' = Append(calls, [NewCall("contacts.upsert", NoJid) EXCEPT !.contacts = data])
    /\ UNCHANGED <<pgPool, engineVars>>

Without(s, k) == SubSeq(s, 1, k - 1) \o SubSeq(s, k + 1, Len(s))

\* saveMappingToPostgres: SELECT id FROM whatsapp_accounts LIMIT 1 returned or threw.
PgAccountReturn(k, ok) ==
    /\ k \in DOMAIN pgSaves
    /\ pgSaves[k].pc = "account"
    /\ IF ok /\ pgPool.whatsapp_accounts
       THEN pgSaves' = [pgSaves EXCEPT ![k].pc = "upsert"]
       ELSE pgSaves' = Without(pgSaves, k)
    /\ UNCHANGED <<cache, lid_mappings, pgPool, calls, engineVars>>

\* saveMappingToPostgres: INSERT ... ON CONFLICT DO UPDATE returned or threw.
PgUpsertReturn(k, ok) ==
    /\ k \in DOMAIN pgSaves
    /\ pgSaves[k].pc = "upsert"
    /\ pgSaves' = Without(pgSaves, k)
    /\ IF ok
       THEN pgPool' = [pgPool EXCEPT !.lid_mappings =
                          (pgSaves[k].lid_jid :> [phone |-> pgSaves[k].phone, push_name |-> pgSaves[k].push_name,
                                                  source |-> pgSaves[k].source]) @@ @]
       ELSE UNCHANGED pgPool
    /\ UNCHANGED <<cache, lid_mappings, calls, engineVars>>

(***************************************************************************)
(* Specifications                                                          *)
(***************************************************************************)
\* The resolver of a fresh process: nothing cached, no table yet.
ResolverIdle ==
    /\ cache = EmptyObj
    /\ lid_mappings = EmptyTable
    /\ pgPool = [lid_mappings |-> EmptyObj, whatsapp_accounts |-> TRUE]
    /\ pgSaves = <<>>
    /\ calls = <<>>

StartPreferences == [responseMode |-> "auto", botPaused |-> FALSE, debugMode |-> FALSE]

\* Spec: both routers and every handler, requests admitted one handler at a
\* time, the store always available.
CoreEvents ==
    {e \in Events :
        \/ e.event # "messages.upsert" \/ e.remoteJid = NoJid
        \/ e.fromMe /\ e.text \in {"", "oi", "/oi", "/pause"}
        \/ ~e.fromMe /\ e.remoteJid = ContactJid /\ e.text \in {"", "oi", "continua"}
        \/ ~e.fromMe /\ e.remoteJid = AdminJid /\ e.text \in {"", "oi", "/pause", "texto"}}
Warm       == {[stage |-> "interested", temperature |-> "warm"]}

Init ==
    /\ router \in {RouterAdmin, RouterLegacy}
    /\ config \in [adminNumber : {AdminPhone}, elevenlabsKey : BOOLEAN, openaiKey : {TRUE}]
    /\ preferences = StartPreferences
    /\ db = EmptyDb
    /\ clock = 0
    /\ turns = <<>>
    /\ limits = [events |-> MaxEvents, inflight |-> MaxInFlight, failures |-> 0, typing |-> {"set"}]
    /\ ResolverIdle

Next ==
    \/ \E e \in CoreEvents : WebhookPost(e)
    \/ \E e \in CoreEvents : WebhookPostLegacy(e)
    \/ \E jid \in Jids : EraseHistory(jid)
    \/ \E t \in DOMAIN turns :
        \/ \E tie \in TieOrders, dt \in Elapsed : HM_TypingOnReturn(t, NoFailure, tie, dt)
        \/ \E ok \in BOOLEAN, dt \in Elapsed : HM_GenerateReturn(t, ok, NoFailure, dt)
        \/ HM_TypingOffReturn(t)
        \/ \E r1 \in BOOLEAN, r2 \in BOOLEAN : HM_TtsReturn(t, r1, r2)
        \/ \E ok \in BOOLEAN : HM_SendAudioReturn(t, ok)
        \/ \E ok \in BOOLEAN : HM_SendTextReturn(t, ok)
        \/ HM_CatchReturn(t)
        \/ \E tie \in TieOrders : BG_ExtractReturn(t, EmptyObj, NoFailure, tie)
        \/ \E c \in Warm : BG_ClassifyReturn(t, c, NoFailure)
        \/ HAM_TypingOnReturn(t)
        \/ \E ok \in BOOLEAN : HAM_DownloadReturn(t, ok)
        \/ \E ok \in BOOLEAN, tie \in TieOrders, dt \in Elapsed : HAM_TranscribeReturn(t, ok, NoFailure, tie, dt)
        \/ \E ok \in BOOLEAN : HAM_ApologyReturn(t, ok)
        \/ \E ok \in BOOLEAN, dt \in Elapsed : HAM_GenerateReturn(t, ok, NoFailure, dt)
        \/ HAM_TypingOffReturn(t)
        \/ \E r1 \in BOOLEAN, r2 \in BOOLEAN : HAM_TtsReturn(t, r1, r2)
        \/ \E ok \in BOOLEAN : HAM_SendAudioReturn(t, ok)
        \/ \E ok \in BOOLEAN : HAM_SendTextReturn(t, ok)
        \/ HAM_CatchTypingReturn(t)
        \/ \E ok \in BOOLEAN : HAM_CatchApologyReturn(t, ok)
        \/ \E ok \in BOOLEAN : ADM_ChatReturn(t, ok)
        \/ \E ok \in BOOLEAN : ADM_SendReturn(t, ok)
        \/ \E ok \in BOOLEAN : CMD_SendReturn(t, ok)

Spec == Init /\ [][Next]_vars

\* SpecDelivery: the operator sets the response mode, contacts write or speak
\* and a reply is generated; every outcome of synthesis and of sending it.
DeliveryEvents ==
    {e \in MessageEvents : /\ ~e.fromMe
                           /\ \/ e.remoteJid = AdminJid /\ e.text \in {"audio", "texto", "auto"}
                              \/ e.remoteJid = ContactJid /\ e.text \in {"", "oi"}}

InitDelivery ==
    /\ router = RouterAdmin
    /\ config \in [adminNumber : {AdminPhone}, elevenlabsKey : BOOLEAN, openaiKey : {TRUE}]
    /\ preferences = StartPreferences
    /\ db = EmptyDb
    /\ clock = 0
    /\ turns = <<>>
    /\ limits = [events |-> MaxEvents, inflight |-> MaxInFlight, failures |-> 0, typing |-> {"set"}]
    /\ ResolverIdle

NextDelivery ==
    \/ \E e \in DeliveryEvents : WebhookPost(e)
    \/ \E t \in DOMAIN turns :
        \/ HM_TypingOnReturn(t, NoFailure, "rowid_desc", 0)
        \/ HM_GenerateReturn(t, TRUE, NoFailure, 0)
        \/ HM_TypingOffReturn(t)
        \/ \E r1 \in BOOLEAN, r2 \in BOOLEAN : HM_TtsReturn(t, r1, r2)
        \/ \E ok \in BOOLEAN : HM_SendAudioReturn(t, ok)
        \/ \E ok \in BOOLEAN : HM_SendTextReturn(t, ok)
        \/ HM_CatchReturn(t)
        \/ HAM_TypingOnReturn(t)
        \/ HAM_DownloadReturn(t, TRUE)
        \/ HAM_TranscribeReturn(t, TRUE, NoFailure, "rowid_desc", 0)
        \/ HAM_GenerateReturn(t, TRUE, NoFailure, 0)
        \/ HAM_TypingOffReturn(t)
        \/ \E r1 \in BOOLEAN, r2 \in BOOLEAN : HAM_TtsReturn(t, r1, r2)
        \/ \E ok \in BOOLEAN : HAM_SendAudioReturn(t, ok)
        \/ \E ok \in BOOLEAN : HAM_SendTextReturn(t, ok)
        \/ HAM_CatchTypingReturn(t)
        \/ \E ok \in BOOLEAN : HAM_CatchApologyReturn(t, ok)
        \/ CMD_SendReturn(t, TRUE)

SpecDelivery == InitDelivery /\ [][NextDelivery]_vars

\* SpecStore: text turns of one contact that overlap freely, their enrichment
\* tasks and erase requests, with the store failing at any statement of a turn.
MaxStoreTurns == 2
MaxFailures   == 1

\* Segments the store has failed in so far.
StoreFailures == Cardinality({t \in DOMAIN turns : turns[t].err = StoreUnavailable})

\* Points of failure left to the store in a segment of n statements.
Faults(n) == IF StoreFailures < limits.failures THEN Budgets(n) ELSE {NoFailure}

StoreEvents == {e \in MessageEvents : ~e.fromMe /\ e.remoteJid = ContactJid /\ e.text = "oi"}

InitStore ==
    /\ router = RouterAdmin
    /\ config = [adminNumber |-> AdminPhone, elevenlabsKey |-> TRUE, openaiKey |-> TRUE]
    /\ preferences = StartPreferences
    /\ db = EmptyDb
    /\ clock = 0
    /\ turns = <<>>
    /\ limits = [events |-> MaxStoreTurns, inflight |-> MaxStoreTurns, failures |-> MaxFailures, typing |-> {"set"}]
    /\ ResolverIdle

NextStore ==
    \/ \E e \in StoreEvents : WebhookPost(e)
    \/ EraseHistory(ContactJid)
    \/ \E t \in DOMAIN turns :
        \/ \E b \in Faults(TurnStatements) : HM_TypingOnReturn(t, b, "rowid_desc", 0)
        \/ \E b \in Faults(AppendStatements) : HM_GenerateReturn(t, TRUE, b, 0)
        \/ HM_TypingOffReturn(t)
        \/ HM_SendTextReturn(t, TRUE)
        \/ HM_CatchReturn(t)
        \/ \E p \in Patches : BG_ExtractReturn(t, p, NoFailure, "rowid_desc")
        \/ \E c \in Warm : BG_ClassifyReturn(t, c, NoFailure)

SpecStore == InitStore /\ [][NextStore]_vars

\* SpecHeuristics: one resolve call for the linked id whose directory request
\* is outstanding; the gateway returns any directory of up to MaxDirectory entries.
DirectoryEntries ==
    [remoteJid : {LidJid}, profilePicUrl : {NoUrl, <<"p", "?", "a">>}, pushName : {"", "Ana"}]
    \cup [remoteJid : {ContactJid, OtherJid}, profilePicUrl : Urls, pushName : {"", "Ana"}]

\* Directories of k entries.
Directories(k) == [1 .. k -> DirectoryEntries]

EngineIdle ==
    /\ router = RouterAdmin
    /\ config = [adminNumber |-> AdminPhone, elevenlabsKey |-> TRUE, openaiKey |-> TRUE]
    /\ preferences = StartPreferences
    /\ db = EmptyDb
    /\ clock = 0
    /\ turns = <<>>
    /\ limits = [events |-> MaxEvents, inflight |-> MaxInFlight, failures |-> 0, typing |-> {"set"}]

InitHeuristics ==
    /\ EngineIdle
    /\ cache = EmptyObj
    /\ lid_mappings = [exists |-> TRUE, rows |-> EmptyObj]
    /\ pgPool = [lid_mappings |-> EmptyObj, whatsapp_accounts |-> TRUE]
    /\ pgSaves = <<>>
    /\ calls = <<[NewCall("sendMessage", LidJid) EXCEPT !.pc = "fetchContacts", !.fetched = TRUE]>>

\* Calls of sendMessage that wait at pc.
Waiting(pc) == {i \in DOMAIN calls : calls[i].kind = "sendMessage" /\ calls[i].pc = pc}

NextHeuristics ==
    \E i \in Waiting("fetchContacts"), k \in 0 .. MaxDirectory :
        \E contacts \in Directories(k) : FetchContactsReturn(i, contacts, NoFailure)

SpecHeuristics == InitHeuristics /\ [][NextHeuristics]_vars

\* SpecResolver: sendMessage calls to the linked id and to a plain number
\* overlap with contact events and with the PostgreSQL saves; SQLite may fail
\* at any statement and every remote request may fail.
LidEntry     == [remoteJid |-> LidJid, profilePicUrl |-> <<"p", "?", "a">>, pushName |-> "Ana"]
ContactEntry == [remoteJid |-> ContactJid, profilePicUrl |-> <<"p", "?", "b">>, pushName |-> "Ana"]
OtherEntry   == [remoteJid |-> OtherJid, profilePicUrl |-> NoUrl, pushName |-> "Ana"]

LiveDirectories ==
    {<<>>,
     <<ContactEntry>>,
     <<LidEntry, ContactEntry>>,
     <<LidEntry, OtherEntry>>,
     <<LidEntry, OtherEntry, [ContactEntry EXCEPT !.profilePicUrl = NoUrl]>>,
     <<LidEntry, [ContactEntry EXCEPT !.pushName = ""], OtherEntry>>}

ContactEvents ==
    {<<[id |-> ContactJid, lid |-> LidJid, name |-> "Ana"]>>,
     <<[id |-> LidJid, lid |-> LidJid, name |-> "Ana"]>>}

InitResolver ==
    /\ EngineIdle
    /\ ResolverIdle

NextResolver ==
    \/ \E b \in Budgets(LookupStatements) : SendMessage(LidJid, b)
    \/ \E data \in ContactEvents, b \in Budgets(SaveStatements) : WebhookContacts(data, b)
    \/ \E i \in Waiting("pgQuery"), ok \in BOOLEAN, b \in Budgets(SaveStatements) : PgQueryReturn(i, ok, b)
    \/ \E i \in Waiting("fetchContacts"), contacts \in LiveDirectories, b \in Budgets(SaveStatements) :
            FetchContactsReturn(i, contacts, b)
    \/ \E i \in Waiting("post") : PostReturn(i, TRUE)
    \/ \E k \in DOMAIN pgSaves : PgAccountReturn(k, TRUE)
    \/ \E k \in DOMAIN pgSaves, ok \in BOOLEAN : PgUpsertReturn(k, ok)

SpecResolver == InitResolver /\ [][NextResolver]_vars


\* SpecIdentity: one contact writes under its number and under its linked id
\* while contact events teach the resolver which number the linked id has.
IdentityEvents ==
    {[event |-> "messages.upsert", remoteJid |-> jid, fromMe |-> FALSE, audio |-> FALSE, text |-> "oi"] :
        jid \in {ContactJid, LidJid}}

InitIdentity ==
    /\ router \in {RouterAdmin, RouterLegacy}
    /\ config = [adminNumber |-> AdminPhone, elevenlabsKey |-> TRUE, openaiKey |-> TRUE]
    /\ preferences = StartPreferences
    /\ db = EmptyDb
    /\ clock = 0
    /\ turns = <<>>
    /\ limits = [events |-> MaxEvents, inflight |-> MaxInFlight, failures |-> 0, typing |-> {"set"}]
    /\ ResolverIdle

NextIdentity ==
    \/ \E e \in IdentityEvents : WebhookPost(e)
    \/ \E e \in IdentityEvents : WebhookPostLegacy(e)
    \/ \E data \in ContactEvents : WebhookContacts(data, NoFailure)
    \/ \E k \in DOMAIN pgSaves : PgAccountReturn(k, TRUE)
    \/ \E k \in DOMAIN pgSaves : PgUpsertReturn(k, TRUE)
    \/ \E t \in DOMAIN turns :
        \/ HM_TypingOnReturn(t, NoFailure, "rowid_desc", 0)
        \/ \E ok \in BOOLEAN : HM_GenerateReturn(t, ok, NoFailure, 0)
        \/ HM_TypingOffReturn(t)
        \/ HM_SendTextReturn(t, TRUE)
        \/ HM_CatchReturn(t)

SpecIdentity == InitIdentity /\ [][NextIdentity]_vars

\* SpecVoice: contacts send voice messages; the download, the transcription,
\* the model, the synthesis and every send may fail.
VoiceEvents == {e \in MessageEvents : ~e.fromMe /\ e.remoteJid = ContactJid /\ e.audio}

InitVoice ==
    /\ router \in {RouterAdmin, RouterLegacy}
    /\ config = [adminNumber |-> AdminPhone, elevenlabsKey |-> TRUE, openaiKey |-> TRUE]
    /\ preferences = StartPreferences
    /\ db = EmptyDb
    /\ clock = 0
    /\ turns = <<>>
    /\ limits = [events |-> MaxEvents, inflight |-> MaxInFlight, failures |-> 0, typing |-> {"set"}]
    /\ ResolverIdle

NextVoice ==
    \/ \E e \in VoiceEvents : WebhookPost(e)
    \/ \E e \in VoiceEvents : WebhookPostLegacy(e)
    \/ \E t \in DOMAIN turns :
        \/ HAM_TypingOnReturn(t)
        \/ \E ok \in BOOLEAN : HAM_DownloadReturn(t, ok)
        \/ \E ok \in BOOLEAN : HAM_TranscribeReturn(t, ok, NoFailure, "rowid_desc", 0)
        \/ \E ok \in BOOLEAN : HAM_ApologyReturn(t, ok)
        \/ \E ok \in BOOLEAN : HAM_GenerateReturn(t, ok, NoFailure, 0)
        \/ HAM_TypingOffReturn(t)
        \/ \E r1 \in BOOLEAN, r2 \in BOOLEAN : HAM_TtsReturn(t, r1, r2)
        \/ \E ok \in BOOLEAN : HAM_SendAudioReturn(t, ok)
        \/ \E ok \in BOOLEAN : HAM_SendTextReturn(t, ok)
        \/ HAM_CatchTypingReturn(t)
        \/ \E ok \in BOOLEAN : HAM_CatchApologyReturn(t, ok)

SpecVoice == InitVoice /\ [][NextVoice]_vars

\* SpecEnrichment: text turns of one contact whose session already holds
\* history, so that the summary and lead classification of
\* processBackgroundTasks become due.
PriorMessages == {18}

\* The store after n messages of the contact's session were appended, user and
\* assistant in turn.
Populated(n) ==
    [memory  |-> (1 :> [whatsapp_id |-> whatsappIdOf(ContactJid), business_id |-> Instance,
                        facts |-> <<>>, lead_stage |-> "new", lead_temperature |-> "cold",
                        summary_short |-> "", summary_detailed |-> "",
                        last_contact_at |-> 0, total_messages |-> n]),
     history |-> [i \in 1 .. n |-> [id |-> i, memory_id |-> 1,
                                    role |-> IF i % 2 = 1 THEN "user" ELSE "assistant",
                                    content |-> IF i % 2 = 1 THEN "oi" ELSE Reply,
                                    created_at |-> 0]],
     memSeq  |-> 1,
     histSeq |-> n]

InitEnrichment ==
    /\ router = RouterAdmin
    /\ config = [adminNumber |-> AdminPhone, elevenlabsKey |-> TRUE, openaiKey |-> TRUE]
    /\ preferences = StartPreferences
    /\ \E n \in PriorMessages : db = Populated(n)
    /\ clock = 0
    /\ turns = <<>>
    /\ limits = [events |-> MaxEvents, inflight |-> MaxInFlight, failures |-> 0, typing |-> {"set"}]
    /\ ResolverIdle

NextEnrichment ==
    \/ \E e \in StoreEvents : WebhookPost(e)
    \/ \E t \in DOMAIN turns :
        \/ \E dt \in Elapsed : HM_TypingOnReturn(t, NoFailure, "rowid_desc", dt)
        \/ \E ok \in BOOLEAN : HM_GenerateReturn(t, ok, NoFailure, 0)
        \/ HM_TypingOffReturn(t)
        \/ HM_SendTextReturn(t, TRUE)
        \/ HM_CatchReturn(t)
        \/ \E p \in Patches : BG_ExtractReturn(t, p, NoFailure, "rowid_desc")
        \/ \E s \in Summaries : BG_SummaryReturn(t, s, NoFailure, "rowid_desc")
        \/ \E c \in Warm : BG_ClassifyReturn(t, c, NoFailure)

SpecEnrichment == InitEnrichment /\ [][NextEnrichment]_vars

\* SpecOperator: the operator pauses, resumes and sets the response mode while
\* text turns of a contact are in flight; generation, synthesis and every
\* send may fail.
InitOperator ==
    /\ router = RouterAdmin
    /\ config = [adminNumber |-> AdminPhone, elevenlabsKey |-> TRUE, openaiKey |-> TRUE]
    /\ preferences = StartPreferences
    /\ db = EmptyDb
    /\ clock = 0
    /\ turns = <<>>
    /\ limits = [events |-> MaxEvents, inflight |-> MaxInFlight, failures |-> 0, typing |-> {"set"}]
    /\ ResolverIdle

NextOperator ==
    \/ \E e \in {m \in MessageEvents :
                    /\ ~m.fromMe
                    /\ \/ m.remoteJid = AdminJid /\ m.text \in {"/pause", "/resume", "audio"}
                       \/ m.remoteJid = ContactJid /\ m.text = "oi"} : WebhookPost(e)
    \/ \E t \in DOMAIN turns :
        \/ HM_TypingOnReturn(t, NoFailure, "rowid_desc", 0)
        \/ \E ok \in BOOLEAN : HM_GenerateReturn(t, ok, NoFailure, 0)
        \/ HM_TypingOffReturn(t)
        \/ \E r1 \in BOOLEAN, r2 \in BOOLEAN : HM_TtsReturn(t, r1, r2)
        \/ \E ok \in BOOLEAN : HM_SendAudioReturn(t, ok)
        \/ \E ok \in BOOLEAN : HM_SendTextReturn(t, ok)
        \/ HM_CatchReturn(t)
        \/ CMD_SendReturn(t, TRUE)

SpecOperator == InitOperator /\ [][NextOperator]_vars

\* The process is started again while no call is pending: the in-memory cache
\* is empty, lid_mappings and PostgreSQL keep their rows.
Restart ==
    /\ cache # EmptyObj
    /\ pgSaves = <<>>
    /\ \A i \in DOMAIN calls : calls[i].pc \in {"done", "failed"}
    /\ cache' = EmptyObj
    /\ UNCHANGED <<lid_mappings, pgPool, pgSaves, calls, engineVars>>

\* SpecLookup: sendMessage calls to the linked id and to a plain number, with
\* the mapping learnt from a contact event present in any subset of the
\* cache, lid_mappings and PostgreSQL.
NextLookup ==
    \/ \E jid \in {LidJid, ContactJid}, b \in Budgets(LookupStatements) : SendMessage(jid, b)
    \/ \E b \in Budgets(SaveStatements) :
          WebhookContacts(<<[id |-> ContactJid, lid |-> LidJid, name |-> "Ana"]>>, b)
    \/ \E i \in Waiting("pgQuery"), ok \in BOOLEAN, b \in Budgets(SaveStatements) : PgQueryReturn(i, ok, b)
    \/ \E i \in Waiting("fetchContacts"), contacts \in {<<>>, <<LidEntry, ContactEntry>>} :
            FetchContactsReturn(i, contacts, NoFailure)
    \/ \E i \in Waiting("post") : PostReturn(i, TRUE)
    \/ \E k \in DOMAIN pgSaves : PgAccountReturn(k, TRUE)
    \/ \E k \in DOMAIN pgSaves : PgUpsertReturn(k, TRUE)
    \/ Restart

SpecLookup == InitResolver /\ [][NextLookup]_vars

\* SpecTyping: text and voice turns of a contact whose typing indicator is
\* set, fails at the gateway or fails at the identity resolution, at every
\* setTyping call; the model and the sends may fail as well.
InitTyping ==
    /\ router = RouterAdmin
    /\ config = [adminNumber |-> AdminPhone, elevenlabsKey |-> TRUE, openaiKey |-> TRUE]
    /\ preferences = StartPreferences
    /\ db = EmptyDb
    /\ clock = 0
    /\ turns = <<>>
    /\ limits = [events |-> MaxInFlight, inflight |-> MaxInFlight, failures |-> 0, typing |-> TypingOutcomes]
    /\ ResolverIdle

NextTyping ==
    \/ \E e \in {m \in MessageEvents : ~m.fromMe /\ m.remoteJid = ContactJid /\ m.text \in {"", "oi"}} :
          WebhookPost(e)
    \/ \E t \in DOMAIN turns :
        \/ HM_TypingOnReturn(t, NoFailure, "rowid_desc", 0)
        \/ \E ok \in BOOLEAN : HM_GenerateReturn(t, ok, NoFailure, 0)
        \/ HM_TypingOffReturn(t)
        \/ \E ok \in BOOLEAN : HM_SendTextReturn(t, ok)
        \/ HM_CatchReturn(t)
        \/ HAM_TypingOnReturn(t)
        \/ HAM_DownloadReturn(t, TRUE)
        \/ HAM_TranscribeReturn(t, TRUE, NoFailure, "rowid_desc", 0)
        \/ \E ok \in BOOLEAN : HAM_GenerateReturn(t, ok, NoFailure, 0)
        \/ HAM_TypingOffReturn(t)
        \/ HAM_TtsReturn(t, TRUE, TRUE)
        \/ \E ok \in BOOLEAN : HAM_SendAudioReturn(t, ok)
        \/ HAM_SendTextReturn(t, TRUE)
        \/ HAM_CatchTypingReturn(t)
        \/ HAM_CatchApologyReturn(t, TRUE)

SpecTyping == InitTyping /\ [][NextTyping]_vars

\* SpecOwnership: text turns of a contact whose session holds up to 18
\* messages, so that the enrichment task reaches the lead classification
\* (3, 8, 13 and 18 messages) and the summary (18 messages).
InitOwnership ==
    /\ router = RouterAdmin
    /\ config = [adminNumber |-> AdminPhone, elevenlabsKey |-> TRUE, openaiKey |-> TRUE]
    /\ preferences = StartPreferences
    /\ \E n \in {0, 3, 8, 13, 18} : db = Populated(n)
    /\ clock = 0
    /\ turns = <<>>
    /\ limits = [events |-> MaxInFlight, inflight |-> MaxInFlight, failures |-> 0, typing |-> {"set"}]
    /\ ResolverIdle

SpecOwnership == InitOwnership /\ [][NextEnrichment]_vars

\* SpecPipeline: text and voice turns of a contact whose session holds 3 or
\* 18 messages, every request of a handler returning or failing, the store
\* failing at any statement of a turn; each pending return is eventually
\* delivered to its handler (the event loop runs every settled promise).
InitPipeline ==
    /\ router \in {RouterAdmin, RouterLegacy}
    /\ config = [adminNumber |-> AdminPhone, elevenlabsKey |-> TRUE, openaiKey |-> TRUE]
    /\ preferences = StartPreferences
    /\ \E n \in {3, 18} : db = Populated(n)
    /\ clock = 0
    /\ turns = <<>>
    /\ limits = [events |-> MaxInFlight, inflight |-> MaxInFlight, failures |-> MaxFailures, typing |-> {"set"}]
    /\ ResolverIdle

\* The return of the request turn t is waiting for.
PipelineReturns(t) ==
    \/ \E b \in Faults(TurnStatements) : HM_TypingOnReturn(t, b, "rowid_desc", 0)
    \/ \E ok \in BOOLEAN, b \in Faults(AppendStatements) : HM_GenerateReturn(t, ok, b, 0)
    \/ HM_TypingOffReturn(t)
    \/ \E ok \in BOOLEAN : HM_SendTextReturn(t, ok)
    \/ HM_CatchReturn(t)
    \/ \E p \in Patches : BG_ExtractReturn(t, p, NoFailure, "rowid_desc")
    \/ \E s \in Summaries : BG_SummaryReturn(t, s, NoFailure, "rowid_desc")
    \/ \E c \in Warm : BG_ClassifyReturn(t, c, NoFailure)
    \/ HAM_TypingOnReturn(t)
    \/ \E ok \in BOOLEAN : HAM_DownloadReturn(t, ok)
    \/ \E ok \in BOOLEAN, b \in Faults(TurnStatements) : HAM_TranscribeReturn(t, ok, b, "rowid_desc", 0)
    \/ \E ok \in BOOLEAN : HAM_ApologyReturn(t, ok)
    \/ \E ok \in BOOLEAN, b \in Faults(AppendStatements) : HAM_GenerateReturn(t, ok, b, 0)
    \/ HAM_TypingOffReturn(t)
    \/ \E r1 \in BOOLEAN, r2 \in BOOLEAN : HAM_TtsReturn(t, r1, r2)
    \/ \E ok \in BOOLEAN : HAM_SendAudioReturn(t, ok)
    \/ \E ok \in BOOLEAN : HAM_SendTextReturn(t, ok)
    \/ HAM_CatchTypingReturn(t)
    \/ \E ok \in BOOLEAN : HAM_CatchApologyReturn(t, ok)

NextPipeline ==
    \/ \E e \in StoreEvents \cup VoiceEvents : WebhookPost(e)
    \/ \E e \in StoreEvents \cup VoiceEvents : WebhookPostLegacy(e)
    \/ \E t \in DOMAIN turns : PipelineReturns(t)

SpecPipeline ==
    /\ InitPipeline
    /\ [][NextPipeline]_vars
    /\ \A t \in 1 .. MaxInFlight : WF_vars(PipelineReturns(t))

\* SpecEcho: the operator writes in the self-chat, and the gateway reports
\* every message the bot sent into that chat back as a messages.upsert event
\* with key.fromMe set.
SelfChatReplies ==
    {t \in DOMAIN turns : /\ turns[t].handler = "handleAdminMessage"
                          /\ turns[t].remoteJid = AdminJid
                          /\ turns[t].sent # <<>>}

\* Requests whose text is a reply of the bot: the operator types other texts.
Echoes == {t \in DOMAIN turns : turns[t].fromMe /\ turns[t].remoteJid = AdminJid /\ turns[t].text = Reply}

EchoesIgnored ==
    {t \in DOMAIN turns : /\ turns[t].fromMe /\ turns[t].remoteJid = AdminJid
                          /\ turns[t].handler = "none"
                          /\ turns[t].event = "messages.upsert"}

\* The gateway's event for the reply that turn t sent, once per reply.
GatewayEcho(t) ==
    /\ t \in SelfChatReplies
    /\ Cardinality(Echoes) + Cardinality(EchoesIgnored) < Cardinality(SelfChatReplies)
    /\ LET e == [event |-> "messages.upsert", remoteJid |-> turns[t].remoteJid, fromMe |-> TRUE,
                 audio |-> FALSE, text |-> turns[t].response]
       IN WebhookPost(e) \/ WebhookPostLegacy(e)

InitEcho ==
    /\ router \in {RouterAdmin, RouterLegacy}
    /\ config = [adminNumber |-> AdminPhone, elevenlabsKey |-> TRUE, openaiKey |-> TRUE]
    /\ preferences = StartPreferences
    /\ db = EmptyDb
    /\ clock = 0
    /\ turns = <<>>
    /\ limits = [events |-> MaxEvents + MaxInFlight, inflight |-> MaxInFlight, failures |-> 0, typing |-> {"set"}]
    /\ ResolverIdle

NextEcho ==
    \/ \E e \in {m \in MessageEvents : m.fromMe /\ m.remoteJid = AdminJid /\ m.text \in {"oi", "/oi"}} :
          WebhookPost(e) \/ WebhookPostLegacy(e)
    \/ \E t \in DOMAIN turns :
        \/ GatewayEcho(t)
        \/ \E ok \in BOOLEAN : ADM_ChatReturn(t, ok)
        \/ \E ok \in BOOLEAN : ADM_SendReturn(t, ok)

SpecEcho == InitEcho /\ [][NextEcho]_vars

\* SpecRecovery: the operator pauses and resumes with messages from the
\* operator's number while a contact writes; the model and the sends may fail.
InitRecovery ==
    /\ router = RouterAdmin
    /\ config = [adminNumber |-> AdminPhone, elevenlabsKey |-> TRUE, openaiKey |-> TRUE]
    /\ preferences = StartPreferences
    /\ db = EmptyDb
    /\ clock = 0
    /\ turns = <<>>
    /\ limits = [events |-> MaxEvents + 1, inflight |-> MaxInFlight, failures |-> 0, typing |-> {"set"}]
    /\ ResolverIdle

NextRecovery ==
    \/ \E e \in {m \in MessageEvents :
                    /\ ~m.fromMe
                    /\ \/ m.remoteJid = AdminJid /\ m.text \in {"/pause", "/resume", "continua"}
                       \/ m.remoteJid = ContactJid /\ m.text = "oi"} : WebhookPost(e)
    \/ \E t \in DOMAIN turns :
        \/ HM_TypingOnReturn(t, NoFailure, "rowid_desc", 0)
        \/ \E ok \in BOOLEAN : HM_GenerateReturn(t, ok, NoFailure, 0)
        \/ HM_TypingOffReturn(t)
        \/ \E ok \in BOOLEAN : HM_SendTextReturn(t, ok)
        \/ HM_CatchReturn(t)
        \/ \E ok \in BOOLEAN : CMD_SendReturn(t, ok)

SpecRecovery == InitRecovery /\ [][NextRecovery]_vars

(***************************************************************************)
(* Properties                                                              *)
(***************************************************************************)
\* The handler started for request t has returned (enrichment may still run).
Finished(t) == turns[t].pc \in {"done", "aborted", "failed", "bgExtract", "bgSummary", "bgClassify"}

ReplySends(t) == {i \in DOMAIN turns[t].sent : turns[t].sent[i][2] = "reply"}
ErrorSends(t) == {i \in DOMAIN turns[t].sent : turns[t].sent[i][2] = "apologyError"}

\* C1: while the bot is paused, a message event (text or audio) from a contact
\* who is not the operator is acknowledged and nothing else happens for it: no
\* handler is started, the model is not invoked, nothing is sent to the contact.
C1_PausedContactGetsNoReply ==
    \A t \in DOMAIN turns :
        (/\ turns[t].event = "messages.upsert"
         /\ turns[t].pausedAtArrival
         /\ ~turns[t].fromMe
         /\ turns[t].remoteJid = ContactJid)
        => /\ turns[t].status # "400 Missing remoteJid"
           /\ turns[t].handler = "none"
           /\ ~turns[t].invoked
           /\ turns[t].sent = <<>>

\* C2: once a "/pause" written by the operator in the self-chat (fromMe, the
\* chat is the admin number) has been processed, isBotPaused() is true until a
\* command is executed again.
C2_SelfChatPausePauses ==
    \A t \in DOMAIN turns :
        (/\ turns[t].event = "messages.upsert"
         /\ turns[t].fromMe
         /\ turns[t].remoteJid = AdminJid
         /\ turns[t].text = "/pause"
         /\ turns[t].pc \in {"done", "aborted"}
         /\ \A u \in DOMAIN turns : u > t => turns[u].handler # "adminCommand")
        => isBotPaused

\* C3 as stated: every turn that chose audio delivery for a generated reply
\* ends with the reply sent to the contact and no error message sent.
C3_ReplyAlwaysReachesContact ==
    \A t \in DOMAIN turns :
        (turns[t].audioChosen = "audio" /\ Finished(t))
        => ReplySends(t) # {} /\ ErrorSends(t) = {}

\* C3 amended: in a turn that chose audio delivery, synthesis throws only
\* after ElevenLabs and then OpenAI were tried, a null synthesis means
\* ElevenLabs is not configured, and when the handler has returned either the
\* reply was sent exactly once and no error message was sent (as text whenever
\* no audio was synthesised), or sendMessage of the reply failed and the reply
\* was not sent at all.
C3_FallbackChain ==
    \A t \in DOMAIN turns :
        turns[t].audioChosen = "audio" =>
            /\ turns[t].synth = "throw" => turns[t].ttsTried = <<"elevenlabs", "openai">>
            /\ turns[t].synth = "audio" => turns[t].ttsTried \in {<<"elevenlabs">>, <<"elevenlabs", "openai">>}
            /\ turns[t].synth = "null" => turns[t].ttsTried = <<>> /\ ~config.elevenlabsKey
            /\ Finished(t) =>
                \/ /\ Cardinality(ReplySends(t)) = 1
                   /\ ErrorSends(t) = {}
                   /\ turns[t].synth # "audio" => turns[t].sent = <<(<<"text", "reply">>)>>
                \/ /\ ReplySends(t) = {}
                   /\ turns[t].err = "Failed to send message"

C3_Witness ==
    \E t \in DOMAIN turns :
        /\ turns[t].audioChosen = "audio"
        /\ turns[t].synth = "throw"
        /\ turns[t].ttsTried = <<"elevenlabs", "openai">>
        /\ Finished(t)
        /\ turns[t].sent = <<(<<"text", "reply">>)>>

\* C4: at the step where a turn chooses how to deliver, audio is chosen
\* exactly when shouldRespondWithAudio(inbound was audio) is true for the
\* response mode of that moment, for text and for audio inbound.
C4_ModalityFollowsMode ==
    [][\A t \in DOMAIN turns :
         (turns[t].audioChosen = "unset" /\ turns'[t].audioChosen # "unset")
         => ((turns'[t].audioChosen = "audio") <=> shouldRespondWithAudio(turns[t].audio))]_vars

\* C5: shouldRespondWithAudio is true for both inputs in audio mode, false for
\* both in text mode and equal to its input in auto mode; the step of
\* handleMessage that calls it chooses audio accordingly and leaves the
\* preferences and the store as they were.
C5_Table ==
    /\ preferences.responseMode \in {"audio", "text", "auto"}
    /\ preferences.responseMode = "audio" => shouldRespondWithAudio(TRUE) /\ shouldRespondWithAudio(FALSE)
    /\ preferences.responseMode = "text" => ~shouldRespondWithAudio(TRUE) /\ ~shouldRespondWithAudio(FALSE)
    /\ preferences.responseMode = "auto" => shouldRespondWithAudio(TRUE) /\ ~shouldRespondWithAudio(FALSE)

C5_CallStep ==
    \A t \in DOMAIN turns :
        (/\ turns[t].handler = "handleMessage"
         /\ turns[t].audioChosen = "unset"
         /\ turns'[t].audioChosen # "unset")
        => /\ (turns'[t].audioChosen = "audio") <=> (preferences.responseMode = "audio")
           /\ UNCHANGED <<preferences, db>>

C5_ShouldRespondWithAudio == [](C5_Table) /\ [][C5_CallStep]_vars

C5_Witness ==
    \E t \in DOMAIN turns :
        /\ turns[t].handler = "handleMessage"
        /\ ~turns[t].audio
        /\ preferences.responseMode = "audio"
        /\ turns[t].audioChosen = "audio"

\* C6: a fromMe message event never starts the conversation pipeline (no
\* session, no history entry, no generated reply to a contact); the only
\* fromMe events handled at all are texts in the operator's self-chat.
C6_OwnMessagesNeverConversation ==
    \A t \in DOMAIN turns :
        (turns[t].event = "messages.upsert" /\ turns[t].fromMe)
        => /\ turns[t].memId = 0
           /\ \/ turns[t].handler = "none"
              \/ turns[t].handler = "handleAdminMessage" /\ turns[t].remoteJid = AdminJid

\* C7: the store never holds two conversation_memory rows for one
\* (whatsapp_id, business_id); a turn whose getOrCreateMemory finds the row
\* gets that row's id and adds no row, also when turns of one new contact
\* overlap; a turn that finds none gets the id of the one row it adds.
C7_OneRowPerPair ==
    \A i \in MemoryIds(db), j \in MemoryIds(db) :
        (/\ db.memory[i].whatsapp_id = db.memory[j].whatsapp_id
         /\ db.memory[i].business_id = db.memory[j].business_id) => i = j

C7_CallStep ==
    \A t \in DOMAIN turns :
        (/\ turns[t].handler = "handleMessage"
         /\ turns[t].pc = "typingOn"
         /\ turns'[t].pc # "typingOn"
         /\ ~(turns'[t].err = StoreUnavailable /\ turns'[t].memId = 0))
        => LET existing == SelectMemoryId(db, whatsappIdOf(turns[t].remoteJid), Instance)
           IN IF existing # 0
              THEN /\ turns'[t].memId = existing
                   /\ MemoryIds(db') = MemoryIds(db)
              ELSE /\ turns'[t].memId \notin MemoryIds(db)
                   /\ MemoryIds(db') = MemoryIds(db) \cup {turns'[t].memId}
                   /\ db'.memory[turns'[t].memId].whatsapp_id = whatsappIdOf(turns[t].remoteJid)
                   /\ db'.memory[turns'[t].memId].business_id = Instance

C7_GetOrCreateIdempotent == [](C7_OneRowPerPair) /\ [][C7_CallStep]_vars

C7_Witness ==
    \E t \in DOMAIN turns, u \in DOMAIN turns :
        /\ t # u
        /\ turns[t].pc = "generating"
        /\ turns[u].pc = "generating"
        /\ turns[t].memId = turns[u].memId
        /\ MemoryIds(db) = {turns[t].memId}

\* C8: the history a turn reads is the last min(limit, count) entries of its
\* session in the order they were appended, oldest first, whatever the
\* seconds at which they were appended.
C8_HistoryInAppendOrder ==
    [][\A t \in DOMAIN turns :
         (turns[t].pc # "generating" /\ turns'[t].pc = "generating")
         => turns'[t].history
              = RowsOut(SeqLast(HistoryOf(db', turns'[t].memId), maxHistoryMessages))]_vars

\* C9: in every state total_messages of a session equals the number of its
\* conversation_history rows: no entry exists without its increment.
C9_CountEqualsEntries ==
    \A id \in MemoryIds(db) : db.memory[id].total_messages = Len(HistoryOf(db, id))

\* C10: a step never removes a key from the facts of a session; the step in
\* which an enrichment task applies its patch leaves every key of the patch
\* with the patch's value and every other key as it was; no other step
\* changes the facts.
C10_MergeStep ==
    \A id \in MemoryIds(db) \cap MemoryIds(db') :
        LET old == JSONparse(db.memory[id].facts)
            new == JSONparse(db'.memory[id].facts)
            appliers == {t \in DOMAIN turns : /\ turns[t].pc = "bgExtract"
                                               /\ turns'[t].pc # "bgExtract"
                                               /\ turns[t].memId = id}
        IN /\ DOMAIN old \subseteq DOMAIN new
           /\ appliers = {} => new = old
           /\ \A t \in appliers :
                LET patch == turns'[t].newFacts
                IN IF turns'[t].err = ""
                   THEN /\ DOMAIN new = DOMAIN old \cup DOMAIN patch
                        /\ \A k \in DOMAIN new : new[k] = IF k \in DOMAIN patch THEN patch[k] ELSE old[k]
                   ELSE new = old \/ \A k \in DOMAIN new : new[k] = IF k \in DOMAIN patch THEN patch[k] ELSE old[k]

C10_MergeFactsLastWriteWins == [][C10_MergeStep]_vars

C10_Witness ==
    \E t \in DOMAIN turns :
        /\ turns[t].pc = "done"
        /\ turns[t].err = ""
        /\ turns[t].newFacts = ("empresa" :> "Acme")
        /\ turns[t].memId \in MemoryIds(db)
        /\ JSONparse(db.memory[turns[t].memId].facts) = [k \in {"nome", "empresa"} |-> IF k = "nome" THEN "Ana" ELSE "Acme"]

\* Calls of sendMessage for a linked id.
LidCalls == {i \in DOMAIN calls : calls[i].kind = "sendMessage" /\ isLID(calls[i].remoteJid)}

\* resolve has returned (or thrown) in call i.
ResolveReturned(i) == calls[i].pc \in {"post", "done", "failed"}

\* C11: once a sendMessage call got a resolved number for a linked id, every
\* sendMessage call for that id that starts afterwards gets the same number and
\* does not request the contact directory.
C11_ResolutionStaysCached ==
    \A i \in LidCalls, j \in LidCalls :
        (/\ calls[i].phone # NoPhone
         /\ calls[j].remoteJid = calls[i].remoteJid
         /\ j > calls[i].resolvedAt)
        => /\ ~calls[j].fetched
           /\ ResolveReturned(j) => calls[j].phone = calls[i].phone

\* Calls whose resolve ran the directory heuristics on calls[i].contacts.
Matched(i) == i \in LidCalls /\ calls[i].fetched /\ ResolveReturned(i)

\* The directory's entry of the linked id itself (0 when it has none).
OwnEntry(i) ==
    LET own == {k \in DOMAIN calls[i].contacts : calls[i].contacts[k].remoteJid = calls[i].remoteJid}
    IN IF own = {} THEN 0 ELSE CHOOSE k \in own : \A m \in own : k <= m

\* Entries with a stable address whose picture is the picture of the linked
\* id once the query strings are removed, both pictures being present.
SamePicture(i) ==
    LET own == OwnEntry(i)
        url == IF own = 0 THEN NoUrl ELSE calls[i].contacts[own].profilePicUrl
        path == BeforeQuery(url)
    IN IF url = NoUrl THEN {}
       ELSE {k \in DOMAIN calls[i].contacts :
                /\ calls[i].contacts[k].remoteJid.server = WaServer
                /\ calls[i].contacts[k].profilePicUrl # NoUrl
                /\ BeforeQuery(calls[i].contacts[k].profilePicUrl) = path}

\* Entries with a stable address that carry the display name of the linked id.
SameName(i) ==
    LET own == OwnEntry(i)
        name == IF own = 0 THEN "" ELSE calls[i].contacts[own].pushName
    IN IF name = "" THEN {}
       ELSE {k \in DOMAIN calls[i].contacts :
                /\ calls[i].contacts[k].remoteJid.server = WaServer
                /\ calls[i].contacts[k].pushName = name}

NothingStored == cache = EmptyObj /\ lid_mappings.rows = EmptyObj /\ pgSaves = <<>>

\* C12: the display-name heuristic resolves a linked id exactly when one
\* directory entry with a stable address carries its display name (and the
\* avatar heuristic found nothing), and then to that entry's number; with two
\* or more such entries resolve returns null and no mapping is stored.
C12_DisplayNameNeedsUniqueCandidate ==
    \A i \in DOMAIN calls :
        Matched(i) =>
            LET avatar == SamePicture(i)
                named  == SameName(i)
            IN /\ calls[i].source = "pushName" <=> (avatar = {} /\ Cardinality(named) = 1)
               /\ calls[i].source = "pushName"
                    => \A k \in named : calls[i].phone = calls[i].contacts[k].remoteJid.user
               /\ (avatar = {} /\ Cardinality(named) >= 2)
                    => calls[i].phone = NoPhone /\ calls[i].dest = calls[i].remoteJid /\ NothingStored

C12_Witness ==
    \E i \in DOMAIN calls :
        /\ Matched(i)
        /\ SamePicture(i) = {}
        /\ Cardinality(SameName(i)) = 2
        /\ calls[i].phone = NoPhone
        /\ NothingStored

\* C13: the avatar heuristic resolves a linked id exactly when some entry
\* with a stable address has its picture (both present, equal up to the query
\* string), and then to the first such entry in directory order; it never
\* returns an entry whose picture differs or is missing.
C13_AvatarMatchesStrippedUrl ==
    \A i \in DOMAIN calls :
        Matched(i) =>
            LET avatar == SamePicture(i)
            IN /\ calls[i].source = "profilePic" <=> avatar # {}
               /\ calls[i].source = "profilePic"
                    => \E k \in avatar :
                           /\ \A m \in avatar : k <= m
                           /\ calls[i].phone = calls[i].contacts[k].remoteJid.user

C13_Witness ==
    \E i \in DOMAIN calls :
        /\ Matched(i)
        /\ calls[i].source = "profilePic"
        /\ Cardinality(SamePicture(i)) = 2
        /\ \E k \in SamePicture(i) :
              /\ calls[i].contacts[k].profilePicUrl # calls[i].contacts[OwnEntry(i)].profilePicUrl
              /\ calls[i].phone = calls[i].contacts[k].remoteJid.user
              /\ \E m \in SamePicture(i) : m > k /\ calls[i].contacts[m].remoteJid # calls[i].contacts[k].remoteJid

\* C14 as stated: a linked id without a mapping whose directory holds exactly
\* one entry with a stable address and the contact's push name is resolved to
\* that entry by the display-name heuristic, and the mapping is then in the
\* cache and in lid_mappings.
C14_UniquePushNameResolves ==
    \A i \in DOMAIN calls :
        LET samePushName == {k \in DOMAIN calls[i].contacts :
                               /\ calls[i].contacts[k].remoteJid.server = WaServer
                               /\ calls[i].contacts[k].pushName = PushNameOf(calls[i].remoteJid)}
        IN (Matched(i) /\ Cardinality(samePushName) = 1)
           => /\ calls[i].source = "pushName"
              /\ \A k \in samePushName : calls[i].phone = calls[i].contacts[k].remoteJid.user
              /\ calls[i].remoteJid \in DOMAIN cache
              /\ calls[i].remoteJid \in DOMAIN lid_mappings.rows

\* C14 amended: when the directory lists the linked id itself, no entry with a
\* stable address has its picture and exactly one carries the display name of
\* its own entry, the step in which fetchContacts returns resolves the id to
\* that entry by the display-name heuristic and puts the mapping in the cache
\* and in lid_mappings and queues the PostgreSQL save; when the INSERT fails
\* the number is still returned and only the PostgreSQL save is queued; when
\* the table cannot be created the raw handle is returned and nothing changes.
C14_Step ==
    \A i \in DOMAIN calls :
        (/\ Calling(i, "fetchContacts")
         /\ calls'[i].pc # "fetchContacts"
         /\ (OwnEntry(i) # 0)'
         /\ (SamePicture(i) = {})'
         /\ (Cardinality(SameName(i)) = 1)')
        => LET lidJid == calls[i].remoteJid
               k      == CHOOSE m \in (SameName(i))' : TRUE
               phone  == calls'[i].contacts[k].remoteJid.user
               row    == [phone |-> phone, push_name |-> calls'[i].contacts[k].pushName, source |-> "pushName"]
               queued == Append(pgSaves, [lid_jid |-> lidJid, phone |-> phone, push_name |-> row.push_name,
                                          source |-> "pushName", pc |-> "account"])
           IN CASE calls'[i].saved = "stored" ->
                     /\ calls'[i].phone = phone /\ calls'[i].source = "pushName"
                     /\ calls'[i].dest = [user |-> phone, server |-> WaServer]
                     /\ lidJid \in DOMAIN cache' /\ cache'[lidJid] = phone
                     /\ lidJid \in DOMAIN lid_mappings'.rows /\ lid_mappings'.rows[lidJid] = row
                     /\ pgSaves' = queued
                [] calls'[i].saved = "insertFailed" ->
                     /\ calls'[i].phone = phone /\ calls'[i].source = "pushName"
                     /\ calls'[i].dest = [user |-> phone, server |-> WaServer]
                     /\ cache' = cache /\ lid_mappings'.rows = lid_mappings.rows
                     /\ pgSaves' = queued
                [] calls'[i].saved = "threw" ->
                     /\ calls'[i].phone = NoPhone /\ calls'[i].dest = lidJid
                     /\ UNCHANGED <<cache, lid_mappings, pgSaves>>
                [] OTHER -> FALSE

C14_UniqueDisplayNameIsSaved == [][C14_Step]_vars

C14_Witness ==
    \E i \in DOMAIN calls :
        /\ Matched(i)
        /\ OwnEntry(i) # 0 /\ SamePicture(i) = {} /\ Cardinality(SameName(i)) = 1
        /\ calls[i].saved = "stored"
        /\ calls[i].source = "pushName"
        /\ calls[i].phone = OtherPhone
        /\ cache = (LidJid :> OtherPhone)
        /\ lid_mappings.rows[LidJid].phone = OtherPhone

\* C15: a mapping learned from a contact event is never replaced by the
\* result of the avatar or display-name heuristic, whatever resolve calls are
\* in flight: neither its row in lid_mappings nor its number in the cache.
C15_ContactEventOutranksHeuristics ==
    [][\A h \in DOMAIN lid_mappings.rows :
         lid_mappings.rows[h].source = "contacts_event"
         => /\ h \in DOMAIN lid_mappings'.rows
            /\ lid_mappings'.rows[h].source \notin {"profilePic", "pushName"}
            /\ h \in DOMAIN cache => (h \in DOMAIN cache' /\ cache'[h] = cache[h])]_vars

\* C16: a sendMessage call for a linked id whose resolve went through cache,
\* lid_mappings, PostgreSQL and the directory heuristics without a result gets
\* the handle itself as destination: nothing is thrown and the text is posted
\* to the raw handle.
C16_UnresolvedFallsBackToHandle ==
    \A i \in LidCalls :
        (calls[i].fetched /\ ResolveReturned(i) /\ calls[i].phone = NoPhone)
        => /\ calls[i].dest = calls[i].remoteJid
           /\ calls[i].source = "none"
           /\ calls[i].pc = "failed" => calls[i].err = "Failed to send message"

C16_Witness ==
    \E i \in LidCalls :
        /\ calls[i].fetched
        /\ calls[i].contacts = <<>>
        /\ calls[i].phone = NoPhone
        /\ calls[i].dest = LidJid
        /\ calls[i].pc = "done"
        /\ cache = EmptyObj

\* C17: one ContactSession per contact and tenant: no tenant has a session
\* keyed by a linked id next to a session keyed by the number that the
\* resolver holds for that linked id.
C17_OneSessionPerContact ==
    \A m1 \in MemoryIds(db), m2 \in MemoryIds(db) :
        LET handle == [user |-> db.memory[m1].whatsapp_id.user, server |-> db.memory[m1].whatsapp_id.suffix]
        IN (/\ db.memory[m1].business_id = db.memory[m2].business_id
            /\ db.memory[m1].whatsapp_id.suffix = LidServer
            /\ db.memory[m2].whatsapp_id.suffix = ""
            /\ handle \in DOMAIN cache)
           => cache[handle] # db.memory[m2].whatsapp_id.user

\* Voice turn t got no audio or no transcription: it is about to apologise, has
\* returned after the apology, or is in the catch block because the apology
\* could not be sent.
TranscriptionFailed(t) ==
    /\ turns[t].handler = "handleAudioMessage"
    /\ \/ turns[t].pc \in {"apologyNoAudio", "apologyTranscribe"}
       \/ turns[t].pc = "failed" /\ ~turns[t].invoked
       \/ /\ turns[t].pc \in {"catchTypingOff", "catchApology", "aborted"}
          /\ ~turns[t].invoked
          /\ turns[t].err = "Failed to send message"

\* C18 as stated: a voice turn whose audio or transcription could not be
\* obtained ends with exactly one apology delivered as text and without the
\* model having been invoked.
C18_ExactlyOneApology ==
    \A t \in DOMAIN turns :
        (TranscriptionFailed(t) /\ Finished(t))
        => /\ Len(turns[t].sent) = 1
           /\ turns[t].sent[1][1] = "text"
           /\ ~turns[t].invoked

\* C18 amended: such a turn never invokes the model, never reaches the store,
\* never goes back to the download or the transcription, and delivers at most
\* one apology, as text: the one for the audio when the gateway accepts it,
\* else the one of the catch block when the gateway accepts that, else none.
C18_Step ==
    \A t \in DOMAIN turns :
        /\ TranscriptionFailed(t) => (TranscriptionFailed(t))'
        /\ (TranscriptionFailed(t))'
           => /\ ~turns'[t].invoked
              /\ turns'[t].response = ""
              /\ turns'[t].memId = 0
              /\ turns'[t] # turns[t] => db' = db
              /\ turns'[t].pc = "failed"
                 => turns'[t].sent \in {<<(<<"text", "apologyNoAudio">>)>>, <<(<<"text", "apologyTranscribe">>)>>}
              /\ turns'[t].pc = "aborted"
                 => turns'[t].sent \in {<<>>, <<(<<"text", "apologyError">>)>>}
              /\ turns'[t].pc \notin {"failed", "aborted"} => turns'[t].sent = <<>>

C18_ApologyAtMostOnce == [][C18_Step]_vars

C18_Witness ==
    \E t \in DOMAIN turns :
        /\ TranscriptionFailed(t)
        /\ turns[t].pc = "failed"
        /\ turns[t].sent = <<(<<"text", "apologyTranscribe">>)>>
        /\ ~turns[t].invoked
        /\ turns[t].memId = 0
        /\ HistoryOf(db, 1) = <<>>

\* C19: when the model invocation of a turn fails, nothing is sent to the
\* contact, no reply is stored and no enrichment is started: once the turn
\* has ended it is aborted with nothing sent.
C19_GenerationFailureIsSilent ==
    \A t \in DOMAIN turns :
        turns[t].err = "Failed to generate AI response"
        => /\ turns[t].sent = <<>>
           /\ turns[t].response = ""
           /\ turns[t].pc \in {"catchTypingOff", "catchApology", "aborted"}

\* C20: every step that delivers the reply of a turn, text or voice, starts
\* the enrichment of that turn, and enrichment is never started before.
C20_DeliveredReplyStartsEnrichment ==
    [][\A t \in DOMAIN turns :
         /\ (ReplySends(t) = {} /\ (ReplySends(t))' # {}) => turns'[t].pc = "bgExtract"
         /\ turns'[t].pc = "bgExtract" => (ReplySends(t))' # {}]_vars

\* C21: needsSummary is false again once a summary has been written: the step
\* in which a turn's summary is stored leaves a session that needs none.
C21_SummaryResetsNeed ==
    [][\A t \in DOMAIN turns :
         (/\ turns[t].pc = "bgSummary"
          /\ turns'[t].pc # "bgSummary"
          /\ db'.memory[turns[t].memId].summary_short = "resumo")
         => ~needsSummary(Ctx(db', NoFailure), turns[t].memId).ret]_vars

\* C22: lead classification is requested for every fifth delivered turn of a
\* session and for no other turn.  The place of a turn among the turns of its
\* session whose reply was stored is the number of assistant rows of the
\* session less the replies of later turns.
C22_ClassifyEveryFifthTurn ==
    [][\A t \in DOMAIN turns :
         LET replies == {i \in DOMAIN db.history : /\ db.history[i].memory_id = turns[t].memId
                                                    /\ db.history[i].role = "assistant"}
             later   == {u \in DOMAIN turns : /\ u > t
                                              /\ turns[u].memId = turns[t].memId
                                              /\ turns[u].response # ""}
             turnNumber == Cardinality(replies) - Cardinality(later)
         IN (/\ turns[t].pc \in {"bgExtract", "bgSummary"}
             /\ turns'[t].pc \notin {"bgExtract", "bgSummary"}
             /\ turns'[t].err = "")
            => (turns'[t].pc = "bgClassify" <=> turnNumber % leadPeriod = 0)]_vars

\* C23: every request gets one HTTP response, given in the step that admits
\* it and never changed afterwards; for a message event handed to a handler
\* the response is the acknowledgment, and in that step the handler has not
\* yet reached the store, the model, the transcription or a send.
C23_Step ==
    \A t \in DOMAIN turns' :
        IF t \in DOMAIN turns
        THEN turns'[t].status = turns[t].status
        ELSE /\ turns'[t].status # ""
             /\ turns'[t].handler \in {"handleMessage", "handleAudioMessage", "handleAdminMessage"}
                => /\ turns'[t].status \in {"processing", "processing audio", "processing admin"}
                   /\ turns'[t].pc \in {"typingOn", "adminChat"}
                   /\ ~turns'[t].invoked
                   /\ turns'[t].sent = <<>>
                   /\ turns'[t].memId = 0
                   /\ db' = db

C23_OneResponsePerRequest == [][C23_Step]_vars

C23_Witness ==
    \E t \in DOMAIN turns :
        /\ turns[t].handler = "handleMessage"
        /\ turns[t].status = "processing"
        /\ turns[t].pc = "aborted"
        /\ turns[t].err = "Failed to send message"

\* C24: a session and its history rows stay in the store, the rows unchanged,
\* through every step except an erase request for that session; the erase
\* request removes the session and every row of it in one step; no history
\* row is ever left without its session.
C24_Step ==
    /\ \A m \in MemoryIds(db) :
         LET rows(d) == {d.history[i] : i \in {j \in DOMAIN d.history : d.history[j].memory_id = m}}
             last    == turns'[Len(turns')]
             erased  == /\ Len(turns') > Len(turns)
                        /\ last.event = "DELETE /history"
                        /\ whatsappIdOf(last.remoteJid) = db.memory[m].whatsapp_id
         IN IF erased
            THEN m \notin MemoryIds(db') /\ rows(db') = {}
            ELSE m \in MemoryIds(db') /\ rows(db) \subseteq rows(db')
    /\ \A i \in DOMAIN db'.history : db'.history[i].memory_id \in MemoryIds(db')

C24_SessionLivesUntilErased == [][C24_Step]_vars

C24_Witness ==
    \E t \in DOMAIN turns, u \in DOMAIN turns :
        /\ turns[t].event = "DELETE /history"
        /\ turns[t].status = "History deleted"
        /\ u < t
        /\ turns[u].memId = 1
        /\ turns[u].response = Reply
        /\ db.memory = EmptyObj
        /\ db.history = <<>>
        /\ db.histSeq >= 2

\* Turns t and u of one session are both waiting for the model, each with the
\* context it has read.
BothGenerating(t, u) ==
    /\ t # u
    /\ Running(t, "handleMessage", "generating")
    /\ Running(u, "handleMessage", "generating")
    /\ turns[t].memId = turns[u].memId

\* The context turn u has read continues the one turn t has read: it holds
\* the inbound entry of t.
Extends(t, u) ==
    /\ Len(turns[u].history) > Len(turns[t].history)
    /\ SubSeq(turns[u].history, 1, Len(turns[t].history)) = turns[t].history

\* C25 as stated, for the interleaving it names: when two turns of a contact
\* have both read their context and both wait for the model, the inbound
\* entry of neither had been appended when the other read, so that neither
\* context holds the inbound entry of the other turn.
C25_BothContextsOmitTheOther ==
    \A t \in DOMAIN turns, u \in DOMAIN turns :
        BothGenerating(t, u) => (~Extends(t, u) /\ ~Extends(u, t))

\* C25 amended: turns of a contact overlap, but a turn appends its inbound
\* entry in the step in which it reads its context: of two turns that are
\* waiting for the model, the one that read later holds the inbound entry of
\* the other, and every context ends with the turn's own inbound entry.
C25_LaterContextHoldsEarlierTurn ==
    \A t \in DOMAIN turns, u \in DOMAIN turns :
        /\ BothGenerating(t, u) => (Extends(t, u) \/ Extends(u, t))
        /\ Running(t, "handleMessage", "generating")
           => /\ turns[t].history # <<>>
              /\ turns[t].history[Len(turns[t].history)].role = "user"
              /\ turns[t].history[Len(turns[t].history)].content = turns[t].text

C25_Witness ==
    \E t \in DOMAIN turns, u \in DOMAIN turns :
        /\ BothGenerating(t, u)
        /\ t < u
        /\ Len(turns[t].history) = 1
        /\ Len(turns[u].history) = 2
        /\ Extends(t, u)

\* C26: a text turn that has reached the model request is never touched by an
\* operator command: the step that admits a command (pause included) leaves
\* the turn as it was, the turn leaves its course only with an error of the
\* model or of the gateway, whether or not the bot has been paused meanwhile,
\* and a turn that returns without an error has delivered its reply.
C26_Step ==
    \A t \in DOMAIN turns :
        (turns[t].handler = "handleMessage" /\ turns[t].invoked)
        => /\ (Len(turns') > Len(turns) \/ preferences' # preferences) => turns'[t] = turns[t]
           /\ turns'[t].pc \in {"catchTypingOff", "aborted", "failed"}
              => turns'[t].err \in {"Failed to generate AI response", "Failed to send message"}
           /\ (Finished(t)' /\ turns'[t].err = "")
              => /\ turns'[t].response = Reply
                 /\ \E i \in DOMAIN turns'[t].sent : turns'[t].sent[i][2] = "reply"

C26_InFlightTurnIsNotAborted == [][C26_Step]_vars

C26_Witness ==
    \E t \in DOMAIN turns :
        /\ Running(t, "handleMessage", "sendText")
        /\ turns[t].response = Reply
        /\ ~turns[t].pausedAtArrival
        /\ preferences.botPaused
        /\ \E u \in DOMAIN turns : u > t /\ turns[u].text = "/pause"

\* The texts handleAudioMessage sends in place of a reply.
Apologies == {"apologyNoAudio", "apologyTranscribe", "apologyError"}

\* C27: whatever a turn of a contact sends is the reply of the model or one of
\* the three fixed apologies, an apology always as text; it is never the text
\* of the error the turn has caught, and a turn that ended in its catch block
\* has sent nothing but apologies.
C27_FailureMessagesAreFixedTexts ==
    \A t \in DOMAIN turns :
        turns[t].handler \in {"handleMessage", "handleAudioMessage"}
        => /\ \A i \in DOMAIN turns[t].sent :
                LET m == turns[t].sent[i]
                IN /\ m[2] \in Apologies \cup {"reply"}
                   /\ m[2] # turns[t].err
                   /\ m[2] \in Apologies => m[1] = "text"
                   /\ m[2] = "reply" => turns[t].response = Reply
           /\ turns[t].pc \in {"aborted", "failed"}
              => \A i \in DOMAIN turns[t].sent : turns[t].sent[i][2] \in Apologies

C27_Witness ==
    \E t \in DOMAIN turns :
        /\ turns[t].handler = "handleAudioMessage"
        /\ turns[t].pc = "aborted"
        /\ turns[t].invoked
        /\ turns[t].err \in {"Failed to generate AI response", "Failed to send message"}
        /\ turns[t].sent = <<(<<"text", "apologyError">>)>>

\* C28 as stated: a request to PostgreSQL or to the contact directory is
\* never issued for a linked id while a source that comes earlier (the cache,
\* lid_mappings, and for the directory PostgreSQL) holds a mapping for it; a
\* plain number is posted to unchanged.
C28_NoLaterSourceWhileEarlierHolds ==
    [][\A i \in DOMAIN calls' :
         LET c       == calls'[i]
             issued  == i \notin DOMAIN calls \/ calls[i].pc # c.pc
             inLocal == c.remoteJid \in DOMAIN cache \/ c.remoteJid \in DOMAIN lid_mappings.rows
         IN (c.kind = "sendMessage" /\ issued)
            => /\ c.pc = "pgQuery" => ~inLocal
               /\ c.pc = "fetchContacts" => ~inLocal /\ c.remoteJid \notin DOMAIN pgPool.lid_mappings
               /\ ~isLID(c.remoteJid) => c.dest = c.remoteJid]_vars

\* C28 amended: the sources are consulted in the order cache, lid_mappings,
\* PostgreSQL, directory. A call for a linked id that finds it in the cache
\* answers from the cache, else from lid_mappings when the row is read; the
\* PostgreSQL request is issued only when neither holds the id at that moment,
\* the directory is requested only by a call that waited for PostgreSQL, and a
\* call answered by a source has not requested the directory unless a
\* heuristic (or nothing) answered it. A plain number goes to the gateway
\* unchanged, with no request and no write to any source.
C28_Step ==
    \A i \in DOMAIN calls' :
        LET c      == calls'[i]
            isNew  == i \notin DOMAIN calls
            jid    == c.remoteJid
        IN c.kind = "sendMessage"
           => /\ (isNew /\ ~isLID(jid))
                 => /\ c.pc = "post" /\ c.dest = jid /\ c.source = "none" /\ ~c.fetched
                    /\ UNCHANGED <<cache, lid_mappings, pgSaves, pgPool>>
              /\ (isNew /\ isLID(jid) /\ jid \in DOMAIN cache)
                 => /\ c.pc = "post" /\ c.source = "cache" /\ c.phone = cache[jid]
                    /\ UNCHANGED <<cache, lid_mappings, pgSaves, pgPool>>
              /\ (isNew /\ isLID(jid) /\ jid \notin DOMAIN cache /\ jid \in DOMAIN lid_mappings.rows)
                 => \/ c.pc = "post" /\ c.source = "sqlite" /\ c.phone = lid_mappings.rows[jid].phone
                    \/ c.pc = "failed"
              /\ (isNew /\ c.pc = "pgQuery")
                 => jid \notin DOMAIN cache /\ jid \notin DOMAIN lid_mappings.rows
              /\ isNew => c.pc # "fetchContacts"
              /\ (~isNew /\ calls[i].pc # c.pc /\ c.pc = "fetchContacts") => calls[i].pc = "pgQuery"
              /\ (~isNew /\ calls[i].pc = "pgQuery" /\ c.source = "postgres_sync")
                 => /\ jid \in DOMAIN pgPool.lid_mappings
                    /\ c.phone = pgPool.lid_mappings[jid].phone
                    /\ c.pc = "post"
              /\ c.source \in {"cache", "sqlite", "postgres_sync"} => ~c.fetched
              /\ c.source \in {"profilePic", "pushName"} => c.fetched

C28_CheapestSourceAnswers == [][C28_Step]_vars

C28_Witness ==
    \E i \in DOMAIN calls, j \in DOMAIN calls :
        /\ calls[i].kind = "sendMessage" /\ calls[i].remoteJid = LidJid
        /\ calls[i].source = "sqlite" /\ ~calls[i].fetched /\ calls[i].pc = "done"
        /\ calls[i].dest = ContactJid
        /\ calls[j].kind = "contacts.upsert"
        /\ LidJid \in DOMAIN pgPool.lid_mappings

\* C29: whatever happens inside a setTyping call (the presence is posted, the
\* post fails or times out, the identity resolution throws), the turn takes
\* the step it takes when the indicator was set: it records no error and goes
\* on to the store and the model after setTyping(true), to the synthesis or
\* the send after setTyping(false), and to the end of its catch block after
\* the setTyping(false) of the catch block.
C29_Step ==
    \A t \in DOMAIN turns :
        Len(turns'[t].typing) > Len(turns[t].typing)
        => /\ turns'[t].err = turns[t].err
           /\ turns'[t].sent = turns[t].sent
           /\ turns'[t].pc =
                CASE Running(t, "handleMessage", "typingOn")            -> "generating"
                  [] Running(t, "handleMessage", "typingOff")           ->
                        IF shouldRespondWithAudio(FALSE) THEN "tts" ELSE "sendText"
                  [] Running(t, "handleMessage", "catchTypingOff")      -> "aborted"
                  [] Running(t, "handleAudioMessage", "typingOn")       -> "download"
                  [] Running(t, "handleAudioMessage", "typingOff")      -> "tts"
                  [] Running(t, "handleAudioMessage", "catchTypingOff") -> "catchApology"
           /\ Running(t, "handleMessage", "typingOn")
              => /\ turns'[t].invoked
                 /\ turns'[t].memId \in MemoryIds(db')
                 /\ Len(db'.history) = Len(db.history) + 1

C29_TypingFailureNeverStopsTurn == [][C29_Step]_vars

C29_Witness ==
    \E t \in DOMAIN turns :
        /\ turns[t].handler = "handleMessage"
        /\ turns[t].typing = <<"resolveFailed", "postFailed">>
        /\ turns[t].pc = "bgExtract"
        /\ turns[t].err = ""
        /\ turns[t].sent = <<(<<"text", "reply">>)>>

\* C30: a step of processBackgroundTasks (the facts, the summary, the lead
\* classification) leaves conversation_history as it is and changes no
\* session's total_messages, last_contact_at or key, and creates or removes
\* no session; what it changes is confined to facts, summary_short,
\* summary_detailed, lead_stage and lead_temperature. The history and the two
\* counters change only in a step in which a handler appends a message.
C30_Step ==
    LET enriching == \E t \in DOMAIN turns :
                        /\ turns[t].pc \in {"bgExtract", "bgSummary", "bgClassify"}
                        /\ turns'[t].pc # turns[t].pc
        appending == \E t \in DOMAIN turns :
                        /\ turns[t].pc \in {"typingOn", "generating"}
                        /\ turns'[t].pc # turns[t].pc
        owned     == {"whatsapp_id", "business_id", "last_contact_at", "total_messages"}
        kept      == /\ db'.history = db.history
                     /\ db'.histSeq = db.histSeq
                     /\ MemoryIds(db') = MemoryIds(db)
                     /\ \A m \in MemoryIds(db) : \A f \in owned : db'.memory[m][f] = db.memory[m][f]
    IN /\ enriching => kept
       /\ ~kept => appending

Stage(pc) ==
    CASE pc = "typingOn"                                  -> 1
      [] pc = "download"                                  -> 2
      [] pc = "transcribe"                                -> 3
      [] pc \in {"apologyNoAudio", "apologyTranscribe"}   -> 4
      [] pc = "generating"                                -> 4
      [] pc = "typingOff"                                 -> 5
      [] pc = "tts"                                       -> 6
      [] pc \in {"sendAudio", "sendTextTry", "sendText"}  -> 7
      [] pc = "sendTextCatch"                             -> 8
      [] pc = "bgExtract"                                 -> 9
      [] pc = "bgSummary"                                 -> 10
      [] pc = "bgClassify"                                -> 11
      [] pc = "catchTypingOff"                            -> 12
      [] pc = "catchApology"                              -> 13
      [] pc \in {"done", "aborted", "failed"}             -> 14
      [] OTHER                                            -> 0

\* C31: a turn only moves forward in the course of its handler, never back to
\* a position it has left, and, every request of the handler returning or
\* failing, each turn that was admitted comes to its end: done, or aborted by
\* its catch block, or returned after an apology.
C31_PipelineTerminates ==
    /\ [][\A t \in DOMAIN turns :
            turns'[t].pc # turns[t].pc => Stage(turns'[t].pc) > Stage(turns[t].pc)]_vars
    /\ \A t \in 1 .. MaxInFlight :
          (t \in DOMAIN turns) ~> (t \in DOMAIN turns /\ turns[t].pc \in {"done", "aborted", "failed"})

C31_Witness ==
    \E t \in DOMAIN turns :
        /\ turns[t].handler = "handleAudioMessage"
        /\ turns[t].pc = "aborted"
        /\ turns[t].err = StoreUnavailable
        /\ turns[t].sent = <<(<<"text", "apologyError">>)>>

\* C32: handling an operator self-chat message does not re-trigger itself: the
\* gateway's event for the reply sent into the self-chat starts no handler, so
\* the replies sent into the self-chat never outnumber the messages the
\* operator wrote there.
OperatorMessages ==
    {t \in DOMAIN turns : turns[t].fromMe /\ turns[t].remoteJid = AdminJid /\ turns[t].text \in {"oi", "/oi"}}

C32_EchoStartsNoHandler ==
    /\ \A t \in Echoes : turns[t].handler # "handleAdminMessage"
    /\ Cardinality(SelfChatReplies) <= Cardinality(OperatorMessages)

\* C33: every assistant row of conversation_history is a reply that reached
\* the contact: a session holds no more assistant rows than it has turns whose
\* reply was delivered or is still on its way, so a turn whose audio and text
\* sends both failed leaves no assistant row.
AssistantRows(m) ==
    {i \in DOMAIN db.history : db.history[i].memory_id = m /\ db.history[i].role = "assistant"}

Delivering(t) ==
    turns[t].pc \in {"typingOff", "tts", "sendAudio", "sendTextTry", "sendTextCatch", "sendText"}

C33_AssistantRowsWereDelivered ==
    \A m \in MemoryIds(db) :
        Cardinality(AssistantRows(m))
            <= Cardinality({t \in DOMAIN turns :
                               turns[t].memId = m /\ (ReplySends(t) # {} \/ Delivering(t))})

\* history.slice(-20).map(msg => ({ role, content }))
formatHistoryLimit == 20

formatHistory(history) ==
    LET last == SeqLast(history, formatHistoryLimit)
    IN [i \in DOMAIN last |-> [role |-> last[i].role, content |-> last[i].content]]

\* The userMessage argument of generateResponse: the text, or the transcription.
UserMessage(t) == IF turns[t].handler = "handleAudioMessage" THEN Transcription ELSE turns[t].text

\* [...messages, { role: 'user', content: userMessage }]
allMessages(t) ==
    formatHistory(turns[t].history) \o <<[role |-> "user", content |-> UserMessage(t)]>>

\* Other requests of the same contact with the same message whose row may be stored.
SaidBefore(t) ==
    {u \in DOMAIN turns \ {t} : /\ turns[u].remoteJid = turns[t].remoteJid
                                /\ turns[u].memId # 0
                                /\ UserMessage(u) = UserMessage(t)}

\* C34: the inbound message of the current turn appears exactly once in the
\* model input: apart from the rows that other requests with the same message
\* stored, the messages given to the model hold the user message only as the
\* final message that generateResponse appends.
C34_InboundMessageAppearsOnce ==
    \A t \in DOMAIN turns :
        turns[t].pc = "generating" =>
            Cardinality({i \in DOMAIN allMessages(t) :
                            allMessages(t)[i] = [role |-> "user", content |-> UserMessage(t)]})
                <= 1 + Cardinality(SaidBefore(t))

\* C35: whenever a turn that switched the typing indicator on has ended, by
\* whatever path, setTyping(false) was called after the setTyping(true): the
\* turn made a second setTyping call.
C35_TypingOffBeforeTurnEnds ==
    \A t \in DOMAIN turns :
        /\ turns[t].handler \in {"handleMessage", "handleAudioMessage"}
        /\ Finished(t)
        /\ turns[t].typing # <<>>
        => Len(turns[t].typing) >= 2

\* C36: in every state, erase requests interleaved with turns and enrichment
\* tasks included, every row of conversation_history references a session
\* that exists, and no row references the session of a turn whose session
\* was erased.
C36_EveryRowHasItsSession ==
    /\ \A i \in DOMAIN db.history : db.history[i].memory_id \in MemoryIds(db)
    /\ \A t \in DOMAIN turns :
          turns[t].memId \notin MemoryIds(db) =>
              \A i \in DOMAIN db.history : db.history[i].memory_id # turns[t].memId

C36_Witness ==
    \E t \in DOMAIN turns, u \in DOMAIN turns :
        /\ t < u
        /\ turns[t].handler = "handleMessage"
        /\ turns[t].memId = 1
        /\ turns[t].err = "SQLITE_CONSTRAINT_FOREIGNKEY"
        /\ turns[t].pc = "aborted"
        /\ turns[u].event = "DELETE /history"
        /\ turns[u].status = "History deleted"
        /\ db.history = <<>>

\* C37: the paused state is always recoverable by the operator: a text from
\* the operator's number is never ignored as paused; while the bot is paused
\* the operator's resume command is executed and clears the flag; and a text
\* of a contact that arrives while the flag is clear is handed to handleMessage.
C37_Step ==
    Len(turns') > Len(turns) =>
        LET last == turns'[Len(turns')]
            inbound == last.event = "messages.upsert" /\ ~last.fromMe /\ ~last.audio
        IN /\ inbound /\ last.remoteJid = AdminJid => last.status # "ignored: bot paused"
           /\ inbound /\ last.remoteJid = AdminJid /\ last.text \in {"/resume", "continua"} =>
                 /\ last.status = "admin command processed"
                 /\ ~preferences'.botPaused
           /\ inbound /\ last.remoteJid = ContactJid /\ ~isBotPaused =>
                 /\ last.status = "processing"
                 /\ last.handler = "handleMessage"
           /\ inbound /\ last.remoteJid = ContactJid => preferences' = preferences

C37_PausedStateIsRecoverable == [][C37_Step]_vars

C37_Witness ==
    \E t \in DOMAIN turns, u \in DOMAIN turns, v \in DOMAIN turns :
        /\ t < u /\ u < v
        /\ turns[t].text = "/pause" /\ turns[t].status = "admin command processed"
        /\ turns[u].text = "continua" /\ turns[u].pausedAtArrival
        /\ turns[u].status = "admin command processed"
        /\ turns[v].remoteJid = ContactJid /\ ~turns[v].pausedAtArrival
        /\ turns[v].handler = "handleMessage"
        /\ turns[v].sent = <<(<<"text", "reply">>)>>

\* C38: in every state of one process the cache agrees with lid_mappings:
\* whenever the cache holds a phone for a linked id, the table exists and
\* holds the same phone for it, whatever the interleaving of sendMessage
\* calls and contact events and whichever store statement fails.
C38_CacheAgreesWithTable ==
    \A lidJid \in DOMAIN cache :
        /\ lid_mappings.exists
        /\ lidJid \in DOMAIN lid_mappings.rows
        /\ lid_mappings.rows[lidJid].phone = cache[lidJid]

C38_Witness ==
    \E i \in DOMAIN calls, j \in DOMAIN calls :
        /\ i < j
        /\ calls[i].kind = "sendMessage"
        /\ calls[i].phone = OtherPhone
        /\ calls[i].saved = "insertFailed"
        /\ calls[j].kind = "contacts.upsert"
        /\ LidJid \in DOMAIN cache
        /\ cache[LidJid] = ContactPhone
        /\ lid_mappings.rows[LidJid].phone = ContactPhone

\* The facts stored for session m in store d ({} when the session is gone).
StoredFacts(d, m) == IF m \in MemoryIds(d) THEN JSONparse(d.memory[m].facts) ELSE EmptyObj

\* C39: the push name becomes the name fact only when no name is known: when
\* an enrichment task has merged its facts, a name extracted from the turn is
\* the name it wrote, and otherwise a name that was stored for the session is
\* still the stored name, however the tasks of successive turns interleave.
C39_Step ==
    \A t \in DOMAIN turns :
        /\ turns[t].pc = "bgExtract"
        /\ turns'[t].pc # "bgExtract"
        /\ turns'[t].err = ""
        /\ turns[t].memId \in MemoryIds(db')
        => LET m == turns[t].memId
               before == StoredFacts(db, m)
               after == StoredFacts(db', m)
               extracted == turns'[t].extracted
           IN /\ "nome" \in DOMAIN extracted =>
                    "nome" \in DOMAIN after /\ after["nome"] = extracted["nome"]
              /\ "nome" \in DOMAIN before /\ "nome" \notin DOMAIN extracted =>
                    "nome" \in DOMAIN after /\ after["nome"] = before["nome"]

C39_PushNameNeverReplacesName == [][C39_Step]_vars

====
